---- MODULE Spec2Model ----
(***************************************************************************)
(* Boot and interrupt-routing core of the BL808 runtime (src/soc/bl808.rs)  *)
(* and the UART configuration registers (src/uart.rs).                     *)
(*                                                                         *)
(* SpecTrap   the DSP (D0) core after `start`: vectored trap entry, the    *)
(*            jump table trap_vectored, machine_external and the second-   *)
(*            level dispatcher rust_bl808_dsp_machine_external.            *)
(* SpecClock  HalPllConfig::new and HalSysClkConfig::crc32 over a set of   *)
(*            clock configurations.                                        *)
(* SpecImage  the image header of one build: the static CPU_CONFIG under   *)
(*            the build's cfg flags and the #[repr(C)] layout of the       *)
(*            header types as size_of and offset_of report it.             *)
(* SpecFrame  machine_external one instruction at a time over registers,   *)
(*            CSRs and the stack words of the TrapFrame.                   *)
(* SpecStart  the entry routine `start` of the MCU and DSP cores: stack    *)
(*            pointer, zeroing loop, copy loop, CSR writes, call of main   *)
(*            (SpecStartFair: with the hart always stepping).              *)
(* SpecPmp    the DSP core after start with loads and stores around the    *)
(*            base of STACK checked against PMP entry 0.                   *)
(* SpecFifo   Serial::write / read / flush against the UART FIFOs, with    *)
(*            the hardware draining and filling them in between            *)
(* SpecFlush  the transmit side of SpecFifo alone (SpecFlushFair: hart     *)
(*            and transmitter always stepping).                            *)
(* SpecFreerun Serial::freerun, one register write at a time, for every   *)
(*            pin tuple type that implements Pins.                         *)
(* SpecUart   TransmitConfig / ReceiveConfig / BitPeriod values of         *)
(*            src/uart.rs under their setter methods.                      *)
(***************************************************************************)
EXTENDS Integers, Sequences, FiniteSets, TLC

VARIABLES
    pc,          \* trap: code the D0 hart is executing
    slot,        \* trap: jump slot of trap_vectored being fetched (-1: not in the table)
    tv,          \* trap: link-time address of trap_vectored
    mtvec,       \* trap: CSR mtvec
    mstatus,     \* trap: CSR mstatus, fields MIE and MPIE
    mcause,      \* trap: CSR mcause, interrupt bit and exception code
    mepc,        \* trap: CSR mepc (the interrupted code)
    frames,      \* trap: TrapFrames live on the stack, innermost first
    source,      \* trap: the dispatcher's `source` (0: claim returned None)
    handler,     \* trap: the handler-table entry being run ("" when none)
    plicClaimed, \* trap: source ids claimed by D0Machine and not yet completed
    trace,       \* trap: PLIC and handler calls made since the last trap entry
    nTraps,      \* trap: traps taken so far
    nClaims,     \* trap: claims that returned a source id
    nCompletes,  \* trap: completion calls sent
    nHandlers,   \* trap: handler invocations
    meip,        \* trap: mip.MEIP, "" when clear, else where the hart was when it rose
    clkCfg,      \* clock: the HalSysClkConfig passed to HalPllConfig::new
    pllConfig,   \* clock: the constructed HalPllConfig (<<>> before construction)
    fieldRead,   \* clock: last field read from the record, <<name, value>>
    cfgFlags,    \* image: cfg predicates of the build (doc and cargo features)
    cpuConfig,   \* image: the static CPU_CONFIG (<<>> before it is evaluated)
    query,       \* image: last size_of / offset_of evaluated (<<>> before the first)
    ip,          \* frame: instruction of machine_external about to execute (0: not inside)
    regs,        \* frame: general-purpose registers of the hart
    csrs,        \* frame: CSRs mcause, mepc and mstatus as register values
    mem,         \* frame: stack memory, one value per 8-byte word address
    atEntry,     \* frame: registers and CSRs as they were on entry to machine_external
    log,         \* frame: instructions executed since the dispatcher returned
    resumed,     \* frame: address mret resumed at (-1 before mret)
    core,        \* start: variant of start built ("mcu", "dsp"; "" outside this specification)
    sym,         \* start: linker symbols STACK, sbss, ebss, sidata, sdata, edata, trap_vectored
    spc,         \* start: position in start
    sreg,        \* start: registers sp, t0..t6 (-1: not yet written by start)
    ram,         \* start: RAM bytes by address
    ramAtCopy,   \* start: RAM as it was when the copy loop was entered
    scsr,        \* start: CSRs mtvec, pmpaddr0, pmpcfg0 (-1: never written)
    done,        \* start: steps of start completed, in order
    mainCalls,   \* start: number of calls of main
    access,      \* start: last load or store made by machine-mode code after start
    cfgReg,      \* uart: the configuration value held, [ty, v]: v is the set of bits that are 1
    lastCall,    \* uart: last method called on it, with its argument and the value before
    nCalls,      \* uart: methods called so far
    frIn,        \* freerun: the arguments of Serial::freerun, [pins, clock, baud, config] (<<>> outside this specification)
    frPc,        \* freerun: position in Serial::freerun ("" outside this specification)
    interval,    \* freerun: the local `interval` (-1 before it is computed)
    uartWrites,  \* freerun: UART registers written so far, in order, [reg, val]
    txFree,      \* fifo: free bytes of the transmit FIFO as the hardware counts them
    rxQ,         \* fifo: bytes held by the receive FIFO, oldest first
    nArrived,    \* fifo: bytes that have arrived on the receive line
    rxLine,      \* fifo: bytes still to arrive on the receive line
    sPc,         \* fifo: position of the driver inside Serial::write / read / flush ("" outside this specification)
    sBuf,        \* fifo: the `buf` of the call in progress
    sLen,        \* fifo: the local `len` (-1 before it is computed)
    sIdx,        \* fifo: elements of buf.iter().take(len) already visited
    txLog,       \* fifo: bytes the call has written to data_write, in order
    rxLog,       \* fifo: bytes the call has taken from data_read, in order
    sRet,        \* fifo: value returned by the call (<<>> while none has returned)
    hazard,      \* fifo: data_write written while full / data_read read while empty
    nSerial      \* fifo: calls of the driver made so far

trapVars == <<pc, slot, tv, mtvec, mstatus, mcause, mepc, frames, source,
              handler, plicClaimed, trace, nTraps, nClaims, nCompletes, nHandlers,
              meip>>

clockVars == <<clkCfg, pllConfig, fieldRead>>

imageVars == <<cfgFlags, cpuConfig, query>>

frameVars == <<ip, regs, csrs, mem, atEntry, log, resumed>>

startVars == <<core, sym, spc, sreg, ram, ramAtCopy, scsr, done, mainCalls, access>>

uartVars == <<cfgReg, lastCall, nCalls>>

freerunVars == <<frIn, frPc, interval, uartWrites>>

fifoVars == <<txFree, rxQ, nArrived, rxLine, sPc, sBuf, sLen, sIdx, txLog, rxLog, sRet, hazard, nSerial>>

\* State outside the trap path, left alone by its actions.
notTrapVars == <<clockVars, imageVars, frameVars, startVars, uartVars, freerunVars, fifoVars>>
\* State outside the clock record, left alone by its actions.
notClockVars == <<trapVars, imageVars, frameVars, startVars, uartVars, freerunVars, fifoVars>>
\* State outside the image header, left alone by its actions.
notImageVars == <<trapVars, clockVars, frameVars, startVars, uartVars, freerunVars, fifoVars>>

\* State outside the trap frame, left alone by its actions.
notFrameVars == <<trapVars, clockVars, imageVars, startVars, uartVars, freerunVars, fifoVars>>

\* State outside the entry sequence, left alone by its actions.
notStartVars == <<trapVars, clockVars, imageVars, frameVars, uartVars, freerunVars, fifoVars>>

\* State outside the UART configuration, left alone by its actions.
notUartVars == <<trapVars, clockVars, imageVars, frameVars, startVars, freerunVars, fifoVars>>

\* State outside the Serial::freerun, left alone by its actions.
notFreerunVars == <<trapVars, clockVars, imageVars, frameVars, startVars, uartVars, fifoVars>>

\* State outside the serial FIFO path, left alone by its actions.
notFifoVars == <<trapVars, clockVars, imageVars, frameVars, startVars, uartVars, freerunVars>>

vars == <<trapVars, clockVars, imageVars, frameVars, startVars, uartVars, freerunVars, fifoVars>>

(***************************************************************************)
(* Bounds                                                                  *)
(***************************************************************************)
MaxTraps == 2        \* traps taken in one behaviour
MaxSourceId == 84    \* largest value the PLIC claim register returns
MaxEntryWord == 2    \* trap_vectored is linked at word 1..MaxEntryWord

(***************************************************************************)
(* Bit operations on naturals                                              *)
(***************************************************************************)
RECURSIVE BitOr(_, _)
BitOr(a, b) ==
    IF a = 0 THEN b
    ELSE IF b = 0 THEN a
    ELSE (IF (a % 2) + (b % 2) > 0 THEN 1 ELSE 0) + 2 * BitOr(a \div 2, b \div 2)

(***************************************************************************)
(* start (bl808-dsp): installation of the trap vector                      *)
(***************************************************************************)
trap_mode == 1       \* RISC-V standard vectored trap

\* la t0, trap_entry; ori t0, t0, trap_mode: the value written to mtvec.
MtvecValue_direct(entry) == BitOr(entry, 0)
MtvecValue(entry) == BitOr(entry, trap_mode)

\* mtvec.BASE (bits above the low two) and mtvec.MODE (the low two bits).
MtvecBase(m) == m - (m % 4)
MtvecMode(m) == m % 4

\* Address the hart jumps to when it takes a trap: in vectored mode an
\* interrupt with cause c enters BASE + 4c, everything else enters BASE.
TrapTarget(m, interrupt, code) ==
    IF MtvecMode(m) = 1 /\ interrupt THEN MtvecBase(m) + 4 * code
    ELSE MtvecBase(m)

(***************************************************************************)
(* trap_vectored: the jump table                                           *)
(***************************************************************************)
trap_vectored_17 ==
    << "reserved", "reserved", "reserved", "reserved", "reserved", "reserved",
       "reserved", "reserved", "reserved", "reserved", "reserved",
       "machine_external",
       "reserved", "reserved", "reserved", "reserved", "reserved" >>
trap_vectored ==
    << "reserved",          \* exceptions
       "reserved",          \* supervisor_software
       "reserved",
       "reserved",          \* machine_software
       "reserved",
       "reserved",          \* supervisor_timer
       "reserved",
       "reserved",          \* machine_timer
       "reserved",
       "reserved",          \* supervisor_external
       "reserved",
       "machine_external",  \* machine_external
       "reserved",
       "reserved",
       "reserved",
       "reserved",
       "reserved",
       "reserved" >>        \* thead_hpm_overflow

\* Cause numbers of the hart: interrupts up to thead_hpm_overflow (17),
\* synchronous exceptions up to store page fault (15).
MaxInterruptCause == 17
MaxExceptionCode == 15

\* Jump slot that lies at address a, -1 when a is not a slot of the table.
SlotAt(a) ==
    IF a >= tv /\ a < tv + 4 * Len(trap_vectored) /\ (a - tv) % 4 = 0
    THEN (a - tv) \div 4
    ELSE -1

(***************************************************************************)
(* The second-level dispatcher and its handler table                       *)
(***************************************************************************)
D0_INTERRUPT_HANDLERS ==
    << "bmx_dsp_bus_err", "dsp_reserved1", "dsp_reserved2", "dsp_reserved3",
       "uart3", "i2c2", "i2c3", "spi1", "dsp_reserved4", "dsp_reserved5",
       "seof_int0", "seof_int1", "seof_int2", "dvp2_bus_int0", "dvp2_bus_int1",
       "dvp2_bus_int2", "dvp2_bus_int3", "h264_bs", "h264_frame",
       "h264_seq_done", "mjpeg", "h264_s_bs", "h264_s_frame",
       "h264_s_seq_done", "dma2_int0", "dma2_int1", "dma2_int2", "dma2_int3",
       "dma2_int4", "dma2_int5", "dma2_int6", "dma2_int7", "dsp_reserved6",
       "dsp_reserved7", "dsp_reserved8", "dsp_reserved9", "dsp_reserved10",
       "mipi_csi", "ipc_d0", "dsp_reserved11", "mjdec", "dvp2_bus_int4",
       "dvp2_bus_int5", "dvp2_bus_int6", "dvp2_bus_int7", "dma2_d_int0",
       "dma2_d_int1", "display", "pwm", "seof_int3", "dsp_reserved12",
       "dsp_reserved13", "osd", "dbi", "dsp_reserved14", "osda_bus_drain",
       "osdb_bus_drain", "osd_pb", "dsp_reserved15", "mipi_dsi",
       "dsp_reserved16", "timer0", "timer1", "wdt", "audio", "wl_all", "pds" >>

\* impl plic::HartContext for D0Machine: index() = 0.
D0Machine == [name |-> "D0Machine", index |-> 0]

\* if idx >= 16 && idx < 16 + 67
InRange_inclusive(idx) == idx >= 16 /\ idx <= 16 + 67
InRange(idx) == idx >= 16 /\ idx < 16 + 67

ClaimEvent(hart, id) == [ev |-> "claim", hart |-> hart.name, id |-> id, index |-> -1, entry |-> ""]
CallEvent(i, h) == [ev |-> "call", hart |-> "", id |-> 0, index |-> i, entry |-> h]
ReturnEvent(i, h) == [ev |-> "return", hart |-> "", id |-> 0, index |-> i, entry |-> h]
CompleteEvent(hart, id) == [ev |-> "complete", hart |-> hart.name, id |-> id, index |-> -1, entry |-> ""]

(***************************************************************************)
(* SpecTrap: initial state and actions                                     *)
(***************************************************************************)
NoCause == [interrupt |-> FALSE, code |-> 0]

TrapIdle ==
    /\ pc = "off"
    /\ slot = -1
    /\ tv = 0
    /\ mtvec = 0
    /\ mstatus = [mie |-> FALSE, mpie |-> FALSE]
    /\ mcause = NoCause
    /\ mepc = ""
    /\ frames = <<>>
    /\ source = 0
    /\ handler = ""
    /\ plicClaimed = {}
    /\ trace = <<>>
    /\ nTraps = 0
    /\ nClaims = 0
    /\ nCompletes = 0
    /\ nHandlers = 0
    /\ meip = ""

ClockIdle ==
    /\ clkCfg = <<>>
    /\ pllConfig = <<>>
    /\ fieldRead = <<>>

ImageIdle ==
    /\ cfgFlags = {}
    /\ cpuConfig = <<>>
    /\ query = <<>>

FrameIdle ==
    /\ ip = 0
    /\ regs = <<>>
    /\ csrs = <<>>
    /\ mem = <<>>
    /\ atEntry = <<>>
    /\ log = <<>>
    /\ resumed = -1

StartIdle ==
    /\ core = ""
    /\ sym = <<>>
    /\ spc = "off"
    /\ sreg = <<>>
    /\ ram = <<>>
    /\ ramAtCopy = <<>>
    /\ scsr = <<>>
    /\ done = <<>>
    /\ mainCalls = 0
    /\ access = <<>>

UartIdle ==
    /\ cfgReg = <<>>
    /\ lastCall = <<>>
    /\ nCalls = 0

FreerunIdle ==
    /\ frIn = <<>>
    /\ frPc = ""
    /\ interval = -1
    /\ uartWrites = <<>>

FifoIdle ==
    /\ txFree = 0
    /\ rxQ = <<>>
    /\ nArrived = 0
    /\ rxLine = 0
    /\ sPc = ""
    /\ sBuf = <<>>
    /\ sLen = -1
    /\ sIdx = 0
    /\ txLog = <<>>
    /\ rxLog = <<>>
    /\ sRet = <<>>
    /\ hazard = {}
    /\ nSerial = 0

InitTrap ==
    /\ ClockIdle
    /\ ImageIdle
    /\ FrameIdle
    /\ StartIdle
    /\ UartIdle
    /\ FreerunIdle
    /\ FifoIdle
    /\ pc = "start"
    /\ slot = -1
    /\ tv \in {4 * k : k \in 1..MaxEntryWord}
    /\ mtvec = 0
    /\ mstatus = [mie |-> FALSE, mpie |-> FALSE]
    /\ mcause = NoCause
    /\ mepc = ""
    /\ frames = <<>>
    /\ source = 0
    /\ handler = ""
    /\ plicClaimed = {}
    /\ trace = <<>>
    /\ nTraps = 0
    /\ nClaims = 0
    /\ nCompletes = 0
    /\ nHandlers = 0
    /\ meip = ""

\* start: csrw mtvec, then call main.
start ==
    /\ pc = "start"
    /\ mtvec' = MtvecValue(tv)
    /\ pc' = "main"
    /\ UNCHANGED <<notTrapVars, meip, slot, tv, mstatus, mcause, mepc, frames, source, handler,
                   plicClaimed, trace, nTraps, nClaims, nCompletes, nHandlers>>

\* main: the application switches machine interrupts on or off.
main(enable) ==
    /\ pc = "main"
    /\ mstatus.mie # enable
    /\ mstatus' = [mstatus EXCEPT !.mie = enable]
    /\ UNCHANGED <<notTrapVars, meip, pc, slot, tv, mtvec, mcause, mepc, frames, source, handler,
                   plicClaimed, trace, nTraps, nClaims, nCompletes, nHandlers>>

\* The hart takes a trap: mepc, mcause and mstatus are set by hardware and
\* control enters the address selected by mtvec.
TrapEntry(interrupt, code) ==
    /\ mepc' = pc
    /\ mcause' = [interrupt |-> interrupt, code |-> code]
    /\ mstatus' = [mie |-> FALSE, mpie |-> mstatus.mie]
    /\ slot' = SlotAt(TrapTarget(mtvec, interrupt, code))
    /\ pc' = IF slot' = -1 THEN "wild" ELSE "trap_vectored"
    /\ trace' = <<>>
    /\ nTraps' = nTraps + 1
    /\ UNCHANGED <<notTrapVars, meip, tv, mtvec, frames, source, handler, plicClaimed,
                   nClaims, nCompletes, nHandlers>>

\* Code between the entry of machine_external and its mret.
DispatchWindow == {"machine_external", "claim", "dispatch", "handler", "complete", "restore"}

\* A source of the PLIC enabled for D0Machine becomes pending: MEIP rises,
\* whatever the hart is executing.
PlicRaise ==
    /\ pc \in {"main"} \cup DispatchWindow
    /\ nTraps < MaxTraps
    /\ meip' = IF pc = "main" THEN "main" ELSE "dispatch"
    /\ meip' # meip
    /\ UNCHANGED <<notTrapVars, pc, slot, tv, mtvec, mstatus, mcause, mepc, frames, source,
                   handler, plicClaimed, trace, nTraps, nClaims, nCompletes, nHandlers>>

\* An interrupt is taken only while mstatus.MIE is set, the external
\* interrupt only while MEIP is up.
TakeInterrupt(code) ==
    /\ pc \in {"main", "machine_external", "claim", "dispatch", "handler",
               "complete", "restore"}
    /\ mstatus.mie
    /\ code = 11 => meip # ""
    /\ nTraps < MaxTraps
    /\ TrapEntry(TRUE, code)

\* A synchronous exception in the application or in a handler.
TakeException(code) ==
    /\ pc \in {"main", "handler"}
    /\ nTraps < MaxTraps
    /\ TrapEntry(FALSE, code)

\* trap_vectored: the `j` of the entered slot.
VectorJump ==
    /\ pc = "trap_vectored"
    /\ pc' = trap_vectored[slot + 1]
    /\ slot' = -1
    /\ UNCHANGED <<notTrapVars, meip, tv, mtvec, mstatus, mcause, mepc, frames, source, handler,
                   plicClaimed, trace, nTraps, nClaims, nCompletes, nHandlers>>

\* reserved: 1: j 1b
reserved ==
    /\ pc = "reserved"
    /\ pc' = "reserved"
    /\ UNCHANGED <<notTrapVars, meip, slot, tv, mtvec, mstatus, mcause, mepc, frames, source,
                   handler, plicClaimed, trace, nTraps, nClaims, nCompletes,
                   nHandlers>>

machine_external_nested ==
    /\ pc = "machine_external"
    /\ frames' = <<[mcause |-> mcause, mepc |-> mepc, mstatus |-> mstatus,
                    source |-> source, handler |-> handler]>> \o frames
    /\ mstatus' = [mstatus EXCEPT !.mie = TRUE]
    /\ pc' = "claim"
    /\ UNCHANGED <<notTrapVars, meip, slot, tv, mtvec, mcause, mepc, source, handler,
                   plicClaimed, trace, nTraps, nClaims, nCompletes, nHandlers>>

\* machine_external, entry half: push the TrapFrame, call the dispatcher.
\* The commented-out `csrs mstatus, 8` is not executed.
machine_external ==
    /\ pc = "machine_external"
    /\ frames' = <<[mcause |-> mcause, mepc |-> mepc, mstatus |-> mstatus,
                    source |-> source, handler |-> handler]>> \o frames
    /\ pc' = "claim"
    /\ UNCHANGED <<notTrapVars, meip, slot, tv, mtvec, mstatus, mcause, mepc, source, handler,
                   plicClaimed, trace, nTraps, nClaims, nCompletes, nHandlers>>

\* plic.claim(D0Machine): the claim register reads r; 0 is None.  The claimed
\* source stops being pending; MEIP stays up when more sources are pending.
Claim(r, more) ==
    /\ pc = "claim"
    /\ source' = r
    /\ handler' = ""
    /\ trace' = Append(trace, ClaimEvent(D0Machine, r))
    /\ IF r # 0
       THEN /\ plicClaimed' = plicClaimed \cup {r}
            /\ nClaims' = nClaims + 1
            /\ pc' = "dispatch"
       ELSE /\ UNCHANGED <<plicClaimed, nClaims>>
            /\ pc' = "restore"
    /\ meip' = IF r # 0 /\ more THEN meip ELSE ""
    /\ UNCHANGED <<notTrapVars, slot, tv, mtvec, mstatus, mcause, mepc, frames, nTraps,
                   nCompletes, nHandlers>>

\* The range test and the indexed call (D0_INTERRUPT_HANDLERS[idx - 16])().
Dispatch_completeInside ==
    /\ pc = "dispatch"
    /\ LET idx == source IN
       IF InRange(idx)
       THEN /\ handler' = D0_INTERRUPT_HANDLERS[(idx - 16) + 1]
            /\ trace' = Append(trace, CallEvent(idx - 16, handler'))
            /\ nHandlers' = nHandlers + 1
            /\ pc' = "handler"
       ELSE /\ pc' = "restore"
            /\ UNCHANGED <<handler, trace, nHandlers>>
    /\ UNCHANGED <<notTrapVars, meip, slot, tv, mtvec, mstatus, mcause, mepc, frames, source,
                   plicClaimed, nTraps, nClaims, nCompletes>>
Dispatch_completeFirst ==
    /\ pc = "dispatch"
    /\ LET idx == source IN
       IF InRange(idx)
       THEN /\ handler' = D0_INTERRUPT_HANDLERS[(idx - 16) + 1]
            /\ plicClaimed' = plicClaimed \ {source}
            /\ trace' = trace \o <<CompleteEvent(D0Machine, source),
                                    CallEvent(idx - 16, handler')>>
            /\ nHandlers' = nHandlers + 1
            /\ nCompletes' = nCompletes + 1
            /\ pc' = "handler"
       ELSE /\ pc' = "complete"
            /\ UNCHANGED <<handler, trace, nHandlers, plicClaimed, nCompletes>>
    /\ UNCHANGED <<notTrapVars, meip, slot, tv, mtvec, mstatus, mcause, mepc, frames, source,
                   nTraps, nClaims>>
Dispatch ==
    /\ pc = "dispatch"
    /\ LET idx == source IN
       IF InRange(idx)
       THEN IF idx - 16 < Len(D0_INTERRUPT_HANDLERS)
            THEN /\ handler' = D0_INTERRUPT_HANDLERS[(idx - 16) + 1]
                 /\ trace' = Append(trace, CallEvent(idx - 16, handler'))
                 /\ nHandlers' = nHandlers + 1
                 /\ pc' = "handler"
            ELSE /\ pc' = "panic"       \* index out of bounds
                 /\ UNCHANGED <<handler, trace, nHandlers>>
       ELSE /\ pc' = "complete"
            /\ UNCHANGED <<handler, trace, nHandlers>>
    /\ UNCHANGED <<notTrapVars, meip, slot, tv, mtvec, mstatus, mcause, mepc, frames, source,
                   plicClaimed, nTraps, nClaims, nCompletes>>

\* The handler returns to the dispatcher.
HandlerReturn ==
    /\ pc = "handler"
    /\ trace' = Append(trace, ReturnEvent(source - 16, handler))
    /\ pc' = "complete"
    /\ UNCHANGED <<notTrapVars, meip, slot, tv, mtvec, mstatus, mcause, mepc, frames, source,
                   handler, plicClaimed, nTraps, nClaims, nCompletes, nHandlers>>

\* plic.complete(D0Machine, PlicSource(source)), then the dispatcher returns.
Complete_wrongSource ==
    /\ pc = "complete"
    /\ plicClaimed' = plicClaimed \ {source - 16}
    /\ trace' = Append(trace, CompleteEvent(D0Machine, source - 16))
    /\ nCompletes' = nCompletes + 1
    /\ pc' = "restore"
    /\ UNCHANGED <<notTrapVars, meip, slot, tv, mtvec, mstatus, mcause, mepc, frames, source,
                   handler, nTraps, nClaims, nHandlers>>
Complete ==
    /\ pc = "complete"
    /\ plicClaimed' = plicClaimed \ {source}
    /\ trace' = Append(trace, CompleteEvent(D0Machine, source))
    /\ nCompletes' = nCompletes + 1
    /\ pc' = "restore"
    /\ UNCHANGED <<notTrapVars, meip, slot, tv, mtvec, mstatus, mcause, mepc, frames, source,
                   handler, nTraps, nClaims, nHandlers>>

\* machine_external, exit half: restore the CSRs from the frame, pop it, mret.
machine_external_return ==
    /\ pc = "restore"
    /\ LET f == Head(frames) IN
       /\ mcause' = f.mcause
       /\ mepc' = f.mepc
       /\ mstatus' = [mie |-> f.mstatus.mpie, mpie |-> TRUE]
       /\ pc' = f.mepc
       /\ source' = f.source
       /\ handler' = f.handler
    /\ frames' = Tail(frames)
    /\ UNCHANGED <<notTrapVars, meip, slot, tv, mtvec, plicClaimed, trace, nTraps, nClaims,
                   nCompletes, nHandlers>>

NextTrap ==
    \/ start
    \/ PlicRaise
    \/ \E enable \in BOOLEAN : main(enable)
    \/ \E code \in 0..MaxInterruptCause : TakeInterrupt(code)
    \/ \E code \in 0..MaxExceptionCode : TakeException(code)
    \/ VectorJump
    \/ reserved
    \/ machine_external
    \/ \E r \in 0..MaxSourceId, more \in BOOLEAN : Claim(r, more)
    \/ Dispatch
    \/ HandlerReturn
    \/ Complete
    \/ machine_external_return

SpecTrap == InitTrap /\ [][NextTrap]_vars

(***************************************************************************)
(* u32 arithmetic: a word is the pair of its 16-bit halves <<high, low>>   *)
(***************************************************************************)
U32(hi, lo) == <<hi, lo>>

RECURSIVE Xor16(_, _)
Xor16(a, b) ==
    IF a = 0 THEN b
    ELSE IF b = 0 THEN a
    ELSE ((a + b) % 2) + 2 * Xor16(a \div 2, b \div 2)

RECURSIVE Reverse16From(_, _)
Reverse16From(a, k) ==
    IF k = 0 THEN 0 ELSE (a % 2) * (2 ^ (k - 1)) + Reverse16From(a \div 2, k - 1)

XorWord(x, y) == U32(Xor16(x[1], y[1]), Xor16(x[2], y[2]))
ShrWord1(x) == U32(x[1] \div 2, (x[2] \div 2) + (x[1] % 2) * 32768)
ShrWord8(x) == U32(x[1] \div 256, (x[2] \div 256) + (x[1] % 256) * 256)
ShlWord1(x) == U32(((x[1] * 2) % 65536) + (x[2] \div 32768), (x[2] * 2) % 65536)
ShlWord24(x) == U32((x[2] % 256) * 256, 0)
ReverseWord(x) == U32(Reverse16From(x[2], 16), Reverse16From(x[1], 16))
Reverse8(b) == Reverse16From(b, 8)

(***************************************************************************)
(* crc::Crc::<u32>::new(&crc::CRC_32_ISO_HDLC).checksum(&buf)              *)
(***************************************************************************)
CRC_32_ISO_HDLC ==
    [ width |-> 32, poly |-> U32(\H04C1, \H1DB7), init |-> U32(\HFFFF, \HFFFF),
      refin |-> TRUE, refout |-> TRUE, xorout |-> U32(\HFFFF, \HFFFF) ]

\* Entry i of the lookup table of a reflected algorithm: eight steps of
\* value = (value >> 1) ^ ((value & 1) * poly) with the bit-reversed poly.
RECURSIVE CrcTableSteps(_, _, _)
CrcTableSteps(poly, value, k) ==
    IF k = 0 THEN value
    ELSE CrcTableSteps(poly,
                       IF value[2] % 2 = 1 THEN XorWord(ShrWord1(value), poly)
                       ELSE ShrWord1(value),
                       k - 1)
CrcTable(alg, i) == CrcTableSteps(ReverseWord(alg.poly), U32(0, i), 8)

\* update: crc = table[(crc ^ byte) & 0xFF] ^ (crc >> 8) for one byte.
CrcUpdateByte(alg, crc, byte) ==
    LET i == Xor16(crc[2], byte) % 256
    IN XorWord(CrcTable(alg, i), ShrWord8(crc))

\* The register after the first n bytes, starting from the reflected init.
RECURSIVE CrcUpdate(_, _, _)
CrcUpdate(alg, bytes, n) ==
    IF n = 0 THEN ReverseWord(alg.init)
    ELSE CHOOSE next \in {CrcUpdateByte(alg, crc, bytes[n]) :
                              crc \in {CrcUpdate(alg, bytes, n - 1)}} : TRUE

\* checksum: init, update over all bytes, xorout.
CrcChecksum(alg, bytes) ==
    XorWord(CrcUpdate(alg, bytes, Len(bytes)), alg.xorout)

(***************************************************************************)
(* HalSysClkConfig and HalPllConfig                                        *)
(***************************************************************************)
\* Field names of HalSysClkConfig in declaration order.
HalSysClkConfigFields ==
    <<
       "xtal_type", "mcu_clk", "mcu_clk_div", "mcu_bclk_div",
       "mcu_pbclk_div", "lp_div", "dsp_clk", "dsp_clk_div",
       "dsp_bclk_div", "dsp_pbclk", "dsp_pbclk_div", "emi_clk",
       "emi_clk_div", "flash_clk_type", "flash_clk_div", "wifipll_pu",
       "aupll_pu", "cpupll_pu", "mipipll_pu", "uhspll_pu" >>

\* impl HalSysClkConfig: pub const fn crc32(&self) -> u32
HalSysClkConfig_crc32_swapped(self) ==
    LET buf == <<
           self.xtal_type, self.mcu_clk, self.mcu_clk_div, self.mcu_bclk_div,
           self.mcu_pbclk_div, self.lp_div, self.dsp_clk, self.dsp_clk_div,
           self.dsp_bclk_div, self.dsp_pbclk_div, self.dsp_pbclk, self.emi_clk,
           self.emi_clk_div, self.flash_clk_type, self.flash_clk_div, self.wifipll_pu,
           self.aupll_pu, self.cpupll_pu, self.mipipll_pu, self.uhspll_pu >>
    IN CrcChecksum(CRC_32_ISO_HDLC, buf)
HalSysClkConfig_crc32(self) ==
    LET buf == <<
           self.xtal_type, self.mcu_clk, self.mcu_clk_div, self.mcu_bclk_div,
           self.mcu_pbclk_div, self.lp_div, self.dsp_clk, self.dsp_clk_div,
           self.dsp_bclk_div, self.dsp_pbclk, self.dsp_pbclk_div, self.emi_clk,
           self.emi_clk_div, self.flash_clk_type, self.flash_clk_div, self.wifipll_pu,
           self.aupll_pu, self.cpupll_pu, self.mipipll_pu, self.uhspll_pu >>
    IN CrcChecksum(CRC_32_ISO_HDLC, buf)

\* impl HalPllConfig: pub const fn new(cfg: HalSysClkConfig) -> Self
HalPllConfig_new(cfg) ==
    LET crc32 == HalSysClkConfig_crc32(cfg)
    IN [magic |-> U32(\H4746, \H4350), cfg |-> cfg, crc32 |-> crc32]

\* The configuration of tests::magic_crc32_hal_pll_config.
test_sys_clk_config ==
    [
      xtal_type |-> 4, mcu_clk |-> 4, mcu_clk_div |-> 0, mcu_bclk_div |-> 0,
      mcu_pbclk_div |-> 3, lp_div |-> 1, dsp_clk |-> 3, dsp_clk_div |-> 0,
      dsp_bclk_div |-> 1, dsp_pbclk |-> 2, dsp_pbclk_div |-> 0, emi_clk |-> 2,
      emi_clk_div |-> 1, flash_clk_type |-> 1, flash_clk_div |-> 0, wifipll_pu |-> 1,
      aupll_pu |-> 1, cpupll_pu |-> 1, mipipll_pu |-> 1, uhspll_pu |-> 1 ]

\* The configuration of the static CLOCK_CONFIG.
CLOCK_CONFIG_cfg ==
    [
      xtal_type |-> 7, mcu_clk |-> 4, mcu_clk_div |-> 0, mcu_bclk_div |-> 0,
      mcu_pbclk_div |-> 3, lp_div |-> 1, dsp_clk |-> 3, dsp_clk_div |-> 0,
      dsp_bclk_div |-> 1, dsp_pbclk |-> 2, dsp_pbclk_div |-> 2, emi_clk |-> 2,
      emi_clk_div |-> 1, flash_clk_type |-> 1, flash_clk_div |-> 0, wifipll_pu |-> 1,
      aupll_pu |-> 1, cpupll_pu |-> 1, mipipll_pu |-> 1, uhspll_pu |-> 1 ]

(***************************************************************************)
(* SpecClock: initial state and actions                                    *)
(***************************************************************************)
MaxSelector == 3     \* selector bytes tried: 0..MaxSelector and 255

SelectorSamples == 0..MaxSelector \cup {255}

\* Configurations tried: the two of the source and every change of one
\* selector of the test configuration to a sampled byte.
ClkInputs ==
    {test_sys_clk_config, CLOCK_CONFIG_cfg}
    \cup {[test_sys_clk_config EXCEPT ![HalSysClkConfigFields[i]] = v] :
             i \in 1..Len(HalSysClkConfigFields), v \in SelectorSamples}

InitClock ==
    /\ TrapIdle
    /\ ImageIdle
    /\ FrameIdle
    /\ StartIdle
    /\ UartIdle
    /\ FreerunIdle
    /\ FifoIdle
    /\ clkCfg \in ClkInputs
    /\ pllConfig = <<>>
    /\ fieldRead = <<>>

\* let test_config = HalPllConfig::new(test_sys_clk_config);
New ==
    /\ pllConfig = <<>>
    /\ pllConfig' = <<HalPllConfig_new(clkCfg)>>
    /\ UNCHANGED <<notClockVars, clkCfg, fieldRead>>

\* test_config.magic, test_config.crc32: a field of the record is read.
ReadField(f) ==
    /\ pllConfig # <<>>
    /\ fieldRead' = <<f, pllConfig[1][f]>>
    /\ UNCHANGED <<notClockVars, clkCfg, pllConfig>>

NextClock ==
    \/ New
    \/ \E f \in {"magic", "crc32"} : ReadField(f)

SpecClock == InitClock /\ [][NextClock]_vars

(***************************************************************************)
(* #[repr(C)] layout of the header types                                   *)
(***************************************************************************)
\* A field `name: ty` (len = 0) or `name: [ty; len]`.
Field(name, ty, len) == [name |-> name, ty |-> ty, len |-> len]

HalBootheader_shortReserved ==
    << Field("magic", "u32", 0),
       Field("revision", "u32", 0),
       Field("flash_cfg", "HalFlashConfig", 0),
       Field("clk_cfg", "HalPllConfig", 0),
       Field("basic_cfg", "HalBasicConfig", 0),
       Field("cpu_cfg", "HalCpuCfg", 3),
       Field("boot2_pt_table_0", "u32", 0),
       Field("boot2_pt_table_1", "u32", 0),
       Field("flash_cfg_table_addr", "u32", 0),
       Field("flash_cfg_table_len", "u32", 0),
       Field("patch_on_read", "HalPatchCfg", 4),
       Field("patch_on_jump", "HalPatchCfg", 4),
       Field("_reserved", "u32", 4),
       Field("crc32", "u32", 0) >>
HalBootheader ==
    << Field("magic", "u32", 0),
       Field("revision", "u32", 0),
       Field("flash_cfg", "HalFlashConfig", 0),
       Field("clk_cfg", "HalPllConfig", 0),
       Field("basic_cfg", "HalBasicConfig", 0),
       Field("cpu_cfg", "HalCpuCfg", 3),
       Field("boot2_pt_table_0", "u32", 0),
       Field("boot2_pt_table_1", "u32", 0),
       Field("flash_cfg_table_addr", "u32", 0),
       Field("flash_cfg_table_len", "u32", 0),
       Field("patch_on_read", "HalPatchCfg", 4),
       Field("patch_on_jump", "HalPatchCfg", 4),
       Field("_reserved", "u32", 5),
       Field("crc32", "u32", 0) >>

HalSysClkConfig ==
    [i \in 1..Len(HalSysClkConfigFields) |-> Field(HalSysClkConfigFields[i], "u8", 0)]

HalPllConfig_crcFirst ==
    << Field("magic", "u32", 0),
       Field("crc32", "u32", 0),
       Field("cfg", "HalSysClkConfig", 0) >>
HalPllConfig ==
    << Field("magic", "u32", 0),
       Field("cfg", "HalSysClkConfig", 0),
       Field("crc32", "u32", 0) >>

HalCpuCfg_wideHalt ==
    << Field("config_enable", "u8", 0),
       Field("halt_cpu", "u16", 0),
       Field("cache_flags", "u8", 0),
       Field("_rsvd", "u8", 0),
       Field("cache_range_h", "u32", 0),
       Field("cache_range_l", "u32", 0),
       Field("image_address_offset", "u32", 0),
       Field("boot_entry", "u32", 0),
       Field("msp_val", "u32", 0) >>
HalCpuCfg ==
    << Field("config_enable", "u8", 0),
       Field("halt_cpu", "u8", 0),
       Field("cache_flags", "u8", 0),
       Field("_rsvd", "u8", 0),
       Field("cache_range_h", "u32", 0),
       Field("cache_range_l", "u32", 0),
       Field("image_address_offset", "u32", 0),
       Field("boot_entry", "u32", 0),
       Field("msp_val", "u32", 0) >>

\* crate::HalPatchCfg { addr: u32, value: u32 }
HalPatchCfg ==
    << Field("addr", "u32", 0),
       Field("value", "u32", 0) >>

\* crate::HalFlashConfig and crate::HalBasicConfig: size and alignment only.
HalFlashConfig == [size |-> 92, align |-> 4]
HalBasicConfig == [size |-> 48, align |-> 4]

\* pub struct TrapFrame: nineteen usize fields.
TrapFrame ==
    << Field("ra", "usize", 0), Field("t0", "usize", 0), Field("t1", "usize", 0),
       Field("t2", "usize", 0), Field("a0", "usize", 0), Field("a1", "usize", 0),
       Field("a2", "usize", 0), Field("a3", "usize", 0), Field("a4", "usize", 0),
       Field("a5", "usize", 0), Field("a6", "usize", 0), Field("a7", "usize", 0),
       Field("t3", "usize", 0), Field("t4", "usize", 0), Field("t5", "usize", 0),
       Field("t6", "usize", 0), Field("mcause", "usize", 0),
       Field("mepc", "usize", 0), Field("mstatus", "usize", 0) >>

StructTypes ==
    {"HalBootheader", "HalSysClkConfig", "HalPllConfig", "HalCpuCfg", "HalPatchCfg",
     "TrapFrame"}

StructFields(ty) ==
    CASE ty = "HalBootheader" -> HalBootheader
      [] ty = "HalSysClkConfig" -> HalSysClkConfig
      [] ty = "HalPllConfig" -> HalPllConfig
      [] ty = "HalCpuCfg" -> HalCpuCfg
      [] ty = "HalPatchCfg" -> HalPatchCfg
      [] ty = "TrapFrame" -> TrapFrame

AlignUp(x, a) == ((x + a - 1) \div a) * a
MaxOf(S) == CHOOSE m \in S : \A n \in S : n <= m

RECURSIVE AlignOf(_), SizeOf(_), FieldOffsets(_, _)

\* Alignment of a type: of a struct, the largest alignment of its fields.
AlignOf(ty) ==
    CASE ty = "u8" -> 1
      [] ty = "u16" -> 2
      [] ty = "u32" -> 4
      [] ty = "usize" -> 8
      [] ty = "HalFlashConfig" -> HalFlashConfig.align
      [] ty = "HalBasicConfig" -> HalBasicConfig.align
      [] ty \in StructTypes ->
            MaxOf({1} \cup {AlignOf(StructFields(ty)[i].ty) : i \in 1..Len(StructFields(ty))})

\* Bytes a field occupies: an array is len elements back to back.
FieldSize(f) == IF f.len = 0 THEN SizeOf(f.ty) ELSE f.len * SizeOf(f.ty)

\* Offsets of the first n fields: each field goes at the end of the one
\* before it, rounded up to its own alignment.
FieldOffsets(fields, n) ==
    IF n = 0 THEN <<>>
    ELSE CHOOSE offs \in
           {Append(prev, AlignUp(IF n = 1 THEN 0
                                 ELSE prev[n - 1] + FieldSize(fields[n - 1]),
                                 AlignOf(fields[n].ty))) :
               prev \in {FieldOffsets(fields, n - 1)}} : TRUE

\* Size of a type: of a struct, the end of its last field rounded up to the
\* struct's alignment.
SizeOf(ty) ==
    CASE ty = "u8" -> 1
      [] ty = "u16" -> 2
      [] ty = "u32" -> 4
      [] ty = "usize" -> 8
      [] ty = "HalFlashConfig" -> HalFlashConfig.size
      [] ty = "HalBasicConfig" -> HalBasicConfig.size
      [] ty \in StructTypes ->
            LET fields == StructFields(ty)
                n == Len(fields)
                end == IF n = 0 THEN 0
                       ELSE FieldOffsets(fields, n)[n] + FieldSize(fields[n])
            IN AlignUp(end, AlignOf(ty))

\* memoffset::offset_of!(ty, field i)
OffsetOf(ty, i) == FieldOffsets(StructFields(ty), i)[i]

(***************************************************************************)
(* CPU_CONFIG                                                              *)
(***************************************************************************)
\* const fn disabled() -> HalCpuCfg
HalCpuCfg_disabled ==
    [ config_enable |-> 0, halt_cpu |-> 0, cache_flags |-> 0, _rsvd |-> 0,
          cache_range_h |-> 0, cache_range_l |-> 0, image_address_offset |-> 0,
          boot_entry |-> 0, msp_val |-> 0 ]

\* An array element under #[cfg(c)]: present when c holds.
CfgElement(c, e) == IF c THEN <<e>> ELSE <<>>

\* pub static CPU_CONFIG: [HalCpuCfg; 3]
CPU_CONFIG_lpBeforeDsp(flags) ==
    CfgElement("bl808-mcu" \in flags,
        [ config_enable |-> 1, halt_cpu |-> 0, cache_flags |-> 0, _rsvd |-> 0,
              cache_range_h |-> 0, cache_range_l |-> 0, image_address_offset |-> 0,
              boot_entry |-> \H58000000, msp_val |-> 0 ])
    \o CfgElement("bl808-mcu" \notin flags, HalCpuCfg_disabled)
    \o CfgElement("bl808-lp" \in flags,
        [ config_enable |-> 1, halt_cpu |-> 0, cache_flags |-> 0, _rsvd |-> 0,
              cache_range_h |-> 0, cache_range_l |-> 0, image_address_offset |-> 0,
              boot_entry |-> 0, msp_val |-> 0 ])
    \o CfgElement("bl808-lp" \notin flags, HalCpuCfg_disabled)
    \o CfgElement("bl808-dsp" \in flags,
        [ config_enable |-> 1, halt_cpu |-> 0, cache_flags |-> 0, _rsvd |-> 0,
              cache_range_h |-> 0, cache_range_l |-> 0, image_address_offset |-> 0,
              boot_entry |-> \H58000000, msp_val |-> 0 ])
    \o CfgElement("bl808-dsp" \notin flags, HalCpuCfg_disabled)
CPU_CONFIG(flags) ==
    CfgElement("bl808-mcu" \in flags,
        [ config_enable |-> 1, halt_cpu |-> 0, cache_flags |-> 0, _rsvd |-> 0,
              cache_range_h |-> 0, cache_range_l |-> 0, image_address_offset |-> 0,
              boot_entry |-> \H58000000, msp_val |-> 0 ])
    \o CfgElement("bl808-mcu" \notin flags, HalCpuCfg_disabled)
    \o CfgElement("bl808-dsp" \in flags,
        [ config_enable |-> 1, halt_cpu |-> 0, cache_flags |-> 0, _rsvd |-> 0,
              cache_range_h |-> 0, cache_range_l |-> 0, image_address_offset |-> 0,
              boot_entry |-> \H58000000, msp_val |-> 0 ])
    \o CfgElement("bl808-dsp" \notin flags, HalCpuCfg_disabled)
    \o CfgElement("bl808-lp" \in flags,
        [ config_enable |-> 1, halt_cpu |-> 0, cache_flags |-> 0, _rsvd |-> 0,
              cache_range_h |-> 0, cache_range_l |-> 0, image_address_offset |-> 0,
              boot_entry |-> 0, msp_val |-> 0 ])
    \o CfgElement("bl808-lp" \notin flags, HalCpuCfg_disabled)

\* #[cfg(any(doc, feature = "bl808-mcu", feature = "bl808-dsp"))]
HeaderStaticsBuilt(flags) ==
    "doc" \in flags \/ "bl808-mcu" \in flags \/ "bl808-dsp" \in flags

(***************************************************************************)
(* SpecImage: initial state and actions                                    *)
(***************************************************************************)
CfgFlags == {"doc", "bl808-mcu", "bl808-dsp", "bl808-lp"}

InitImage ==
    /\ TrapIdle
    /\ ClockIdle
    /\ FrameIdle
    /\ StartIdle
    /\ UartIdle
    /\ FreerunIdle
    /\ FifoIdle
    /\ cfgFlags \in SUBSET CfgFlags
    /\ cpuConfig = <<>>
    /\ query = <<>>

\* The build evaluates the static CPU_CONFIG.
EvalCpuConfig ==
    /\ HeaderStaticsBuilt(cfgFlags)
    /\ cpuConfig = <<>>
    /\ cpuConfig' = <<CPU_CONFIG(cfgFlags)>>
    /\ UNCHANGED <<notImageVars, cfgFlags, query>>

\* size_of::<ty>()
QuerySizeOf(ty) ==
    /\ query' = [op |-> "size_of", ty |-> ty, field |-> "", index |-> 0,
                 result |-> SizeOf(ty)]
    /\ UNCHANGED <<notImageVars, cfgFlags, cpuConfig>>

\* offset_of!(ty, field)
QueryOffsetOf(ty, i) ==
    /\ query' = [op |-> "offset_of", ty |-> ty, field |-> StructFields(ty)[i].name,
                 index |-> i, result |-> OffsetOf(ty, i)]
    /\ UNCHANGED <<notImageVars, cfgFlags, cpuConfig>>

NextImage ==
    \/ EvalCpuConfig
    \/ \E ty \in StructTypes : QuerySizeOf(ty)
    \/ \E ty \in StructTypes : \E i \in 1..Len(StructFields(ty)) : QueryOffsetOf(ty, i)

SpecImage == InitImage /\ [][NextImage]_vars

(***************************************************************************)
(* Properties of the dispatcher and the trap vector (SpecTrap)             *)
(***************************************************************************)
Calls == SelectSeq(trace, LAMBDA e : e.ev = "call")
Completes == SelectSeq(trace, LAMBDA e : e.ev = "complete")
InBand(id) == id \in 16..82

\* C1: when the dispatcher returns from a trap, a claim that returned a
\* source id has produced exactly one completion call carrying D0Machine and
\* that id, and exactly one handler invocation if the id is in [16, 83) and
\* none otherwise; a claim that returned none has produced no handler
\* invocation and no completion call. Once every trap has returned, the
\* completions sent equal the successful claims.
C1_OneCompletionPerClaim ==
    /\ pc = "restore" =>
          /\ Len(trace) >= 1
          /\ trace[1] = ClaimEvent(D0Machine, source)
          /\ source = 0 => Calls = <<>> /\ Completes = <<>>
          /\ source # 0 =>
                /\ Completes = <<CompleteEvent(D0Machine, source)>>
                /\ Len(Calls) = IF InBand(source) THEN 1 ELSE 0
    /\ pc = "main" => nCompletes = nClaims /\ plicClaimed = {}
    /\ nHandlers <= nClaims

W_C1_SecondTrapDispatched ==
    /\ pc = "restore"
    /\ nTraps = 2
    /\ nClaims = 1
    /\ InBand(source)
    /\ Len(Calls) = 1
    /\ Len(Completes) = 1

\* C2: a handler call for claimed id s uses table index s - 16, which lies in
\* 0..66 of the 67-entry table and selects that entry (id 16 the first entry,
\* id 82 the last); no table access is out of bounds; an id below 16 or at or
\* above 83 invokes no handler.
C2_IndexMapping ==
    /\ Len(D0_INTERRUPT_HANDLERS) = 67
    /\ pc # "panic"
    /\ \A i \in 1..Len(trace) :
          trace[i].ev = "call" =>
             LET id == trace[1].id IN
             /\ trace[1].ev = "claim"
             /\ InBand(id)
             /\ trace[i].index = id - 16
             /\ trace[i].index \in 0..66
             /\ trace[i].entry = D0_INTERRUPT_HANDLERS[trace[i].index + 1]
             /\ id = 16 => trace[i].index = 0 /\ trace[i].entry = "bmx_dsp_bus_err"
             /\ id = 20 => trace[i].entry = "uart3"
             /\ id = 82 => trace[i].entry = "pds"
    /\ pc = "handler" => handler = D0_INTERRUPT_HANDLERS[source - 16 + 1]
    /\ (pc \in {"handler", "complete", "restore"} /\ source # 0 /\ (source <= 15 \/ source >= 83))
          => Calls = <<>>

W_C2_LowerBoundIsIndexZero ==
    /\ pc = "complete"
    /\ source = 16
    /\ Calls = <<CallEvent(0, "bmx_dsp_bus_err")>>

\* C3 (as stated): for a claimed id outside [16, 83) the dispatcher invokes
\* no handler and sends no completion call.
C3_NoCompletionOutsideBand ==
    (pc = "restore" /\ source # 0 /\ ~InBand(source)) =>
        Calls = <<>> /\ Completes = <<>>

\* C3 (amended): for a claimed id outside [16, 83) the dispatcher invokes no
\* handler and sends exactly one completion call, for that id, right after
\* the claim.
C3_CompletionOutsideBand ==
    (pc = "restore" /\ source # 0 /\ ~InBand(source)) =>
        trace = <<ClaimEvent(D0Machine, source), CompleteEvent(D0Machine, source)>>

W_C3_UpperBoundCompleted ==
    /\ pc = "restore"
    /\ source = 83
    /\ Len(trace) = 2

\* C4: completions never outnumber successful claims; at most one claim is
\* outstanding; a completion is sent only while the claim of the same id by
\* D0Machine is outstanding; in the calls of one trap the completion comes
\* after the handler's return when a handler is invoked and directly after
\* the claim otherwise; no completion is sent while a handler runs.
C4_CompletionPairedWithClaim ==
    /\ nCompletes <= nClaims
    /\ Cardinality(plicClaimed) <= 1
    /\ pc = "complete" => plicClaimed = {source}
    /\ pc = "handler" => plicClaimed = {source} /\ Completes = <<>>
    /\ \A i \in 1..Len(trace) :
          trace[i].ev = "complete" =>
             /\ trace[i].id # 0
             /\ trace[1] = ClaimEvent(D0Machine, trace[i].id)
             /\ IF InBand(trace[i].id)
                THEN /\ i = 4
                     /\ trace[2].ev = "call"
                     /\ trace[3].ev = "return"
                     /\ trace[3].index = trace[2].index
                ELSE i = 2

W_C4_CompletionAfterHandler ==
    /\ pc = "restore"
    /\ Len(trace) = 4
    /\ trace[4].ev = "complete"
    /\ plicClaimed = {}

\* C10: after start mtvec holds the address of trap_vectored with mode 1; a
\* trap enters the jump slot of its cause number (an exception slot 0); slot
\* 11 jumps to machine_external and every other slot to `reserved`, which
\* the hart never leaves.
C10_StateOk ==
    /\ pc # "start" => mtvec = tv + 1 /\ MtvecMode(mtvec) = 1 /\ MtvecBase(mtvec) = tv
    /\ pc # "wild"
    /\ pc = "trap_vectored" =>
          slot = IF mcause.interrupt THEN mcause.code ELSE 0
C10_StepOk ==
    /\ pc = "trap_vectored" =>
          pc' = IF slot = 11 THEN "machine_external" ELSE "reserved"
    /\ pc = "reserved" => pc' = "reserved"
    /\ pc' = "machine_external" => mcause = [interrupt |-> TRUE, code |-> 11]
C10_VectorRouting == [](C10_StateOk) /\ [][C10_StepOk]_vars

W_C10_VendorSlotHalts ==
    /\ pc = "reserved"
    /\ mcause = [interrupt |-> TRUE, code |-> 17]

(***************************************************************************)
(* Properties of the clock record (SpecClock)                              *)
(***************************************************************************)
\* CRC-32/ISO-HDLC by its catalogue parameters: width 32, poly 0x04C11DB7,
\* init 0xFFFFFFFF, input and output reflected, xorout 0xFFFFFFFF, computed
\* bit by bit, most significant bit first.
RECURSIVE RefCrcBits(_, _)
RefCrcBits(reg, k) ==
    IF k = 0 THEN reg
    ELSE CHOOSE r \in {RefCrcBits(n, k - 1) :
                          n \in {IF reg[1] >= 32768
                                 THEN XorWord(ShlWord1(reg), U32(\H04C1, \H1DB7))
                                 ELSE ShlWord1(reg)}} : TRUE
RECURSIVE RefCrcBytes(_, _)
RefCrcBytes(bytes, n) ==
    IF n = 0 THEN U32(\HFFFF, \HFFFF)
    ELSE CHOOSE r \in {RefCrcBits(XorWord(reg, ShlWord24(U32(0, Reverse8(bytes[n])))), 8) :
                          reg \in {RefCrcBytes(bytes, n - 1)}} : TRUE
RefCrc32IsoHdlc(bytes) ==
    XorWord(ReverseWord(RefCrcBytes(bytes, Len(bytes))), U32(\HFFFF, \HFFFF))

\* The 20 selector bytes of c in field-declaration order.
SelectorBytes(c) == [i \in 1..Len(HalSysClkConfigFields) |-> c[HalSysClkConfigFields[i]]]

\* The reference configuration (4,4,0,0,3,1,3,0,1,2,0,2,1,1,0,1,1,1,1,1).
ReferenceBytes == <<4, 4, 0, 0, 3, 1, 3, 0, 1, 2, 0, 2, 1, 1, 0, 1, 1, 1, 1, 1>>

\* C5: a constructed record has magic 0x47464350, holds the configuration it
\* was built from, and its crc32 is the CRC-32/ISO-HDLC of the 20 selector
\* bytes in declaration order (0x29E2C4C0 for the reference configuration);
\* no step changes a constructed record.
C5_RecordOk ==
    pllConfig # <<>> =>
        LET r == pllConfig[1] IN
        /\ r.magic = U32(\H4746, \H4350)
        /\ r.cfg = clkCfg
        /\ Len(SelectorBytes(clkCfg)) = 20
        /\ r.crc32 = RefCrc32IsoHdlc(SelectorBytes(clkCfg))
        /\ SelectorBytes(clkCfg) = ReferenceBytes => r.crc32 = U32(\H29E2, \HC4C0)
C5_RecordKept == pllConfig # <<>> => pllConfig' = pllConfig
C5_PllConfigNew == [](C5_RecordOk) /\ [][C5_RecordKept]_vars

W_C5_ReferenceCrcRead ==
    /\ pllConfig # <<>>
    /\ SelectorBytes(clkCfg) = ReferenceBytes
    /\ fieldRead = <<"crc32", U32(\H29E2, \HC4C0)>>

(***************************************************************************)
(* Properties of the image header (SpecImage)                              *)
(***************************************************************************)
IsSizeOf(ty) == query # <<>> /\ query.op = "size_of" /\ query.ty = ty
IsOffsetOf(ty) == query # <<>> /\ query.op = "offset_of" /\ query.ty = ty

\* The reported offset is the end of the field before it (0 for the first).
NoPaddingBefore ==
    query.result = IF query.index = 1 THEN 0
                   ELSE OffsetOf(query.ty, query.index - 1)
                        + FieldSize(StructFields(query.ty)[query.index - 1])

\* The reported size is the end of the last field.
NoPaddingAtEnd ==
    LET n == Len(StructFields(query.ty))
    IN query.result = OffsetOf(query.ty, n) + FieldSize(StructFields(query.ty)[n])

BootheaderOffsets ==
    [ magic |-> \H00, revision |-> \H04, flash_cfg |-> \H08, clk_cfg |-> \H64,
      basic_cfg |-> \H80, cpu_cfg |-> \HB0, boot2_pt_table_0 |-> \HF8,
      boot2_pt_table_1 |-> \HFC, flash_cfg_table_addr |-> \H100,
      flash_cfg_table_len |-> \H104, patch_on_read |-> \H108,
      patch_on_jump |-> \H128, crc32 |-> \H15C ]

\* C6: size_of HalBootheader is 352 = 0x160 and offset_of reports every
\* documented field at its documented offset; every field starts where the
\* field before it ends and the last field ends at the size.
C6_BootheaderLayout ==
    /\ IsSizeOf("HalBootheader") =>
          query.result = 352 /\ query.result = \H160 /\ NoPaddingAtEnd
    /\ IsOffsetOf("HalBootheader") =>
          /\ query.field \in DOMAIN BootheaderOffsets =>
                query.result = BootheaderOffsets[query.field]
          /\ query.field \in DOMAIN BootheaderOffsets \cup {"_reserved"}
          /\ NoPaddingBefore

W_C6_TrailingCrcOffset ==
    /\ IsOffsetOf("HalBootheader")
    /\ query.field = "crc32"
    /\ query.result = \H15C

\* C7: HalPllConfig is 28 bytes with magic at 0, cfg at 4 and crc32 at 24;
\* HalSysClkConfig is 20 bytes and its i-th declared field (xtal_type the
\* first, uhspll_pu the twentieth) lies at offset i - 1.
C7_PllConfigLayout ==
    /\ IsSizeOf("HalPllConfig") => query.result = 28
    /\ IsOffsetOf("HalPllConfig") =>
          /\ query.field \in {"magic", "cfg", "crc32"}
          /\ query.field = "magic" => query.result = 0
          /\ query.field = "cfg" => query.result = 4
          /\ query.field = "crc32" => query.result = 24
    /\ IsSizeOf("HalSysClkConfig") => query.result = 20
    /\ IsOffsetOf("HalSysClkConfig") =>
          /\ query.index \in 1..20
          /\ query.result = query.index - 1
          /\ query.field = HalSysClkConfigFields[query.index]
          /\ query.field = "xtal_type" <=> query.result = \H00
          /\ query.field = "uhspll_pu" <=> query.result = \H13

W_C7_PllCrcOffset ==
    /\ IsOffsetOf("HalPllConfig")
    /\ query.field = "crc32"
    /\ query.result = 24

CpuCfgOffsets ==
    [ config_enable |-> \H00, halt_cpu |-> \H01, cache_flags |-> \H02,
      _rsvd |-> \H03, cache_range_h |-> \H04, cache_range_l |-> \H08,
      image_address_offset |-> \H0C, boot_entry |-> \H10, msp_val |-> \H14 ]

\* C8: HalCpuCfg is 24 bytes with its nine fields at the documented offsets,
\* and the three records of cpu_cfg start at header byte 0xB0 and end at
\* 0xF7, directly before boot2_pt_table_0.
C8_CpuCfgLayout ==
    /\ IsSizeOf("HalCpuCfg") => query.result = 24
    /\ IsOffsetOf("HalCpuCfg") =>
          /\ query.field \in DOMAIN CpuCfgOffsets
          /\ query.result = CpuCfgOffsets[query.field]
    /\ (IsOffsetOf("HalBootheader") /\ query.field = "cpu_cfg") =>
          /\ query.result = \HB0
          /\ StructFields("HalBootheader")[query.index].len = 3
          /\ query.result + 3 * SizeOf("HalCpuCfg") - 1 = \HF7
    /\ (IsOffsetOf("HalBootheader") /\ query.field = "boot2_pt_table_0") =>
          query.result = \HF7 + 1

W_C8_MspValOffset ==
    /\ IsOffsetOf("HalCpuCfg")
    /\ query.field = "msp_val"
    /\ query.result = \H14

CoreFeatures == <<"bl808-mcu", "bl808-dsp", "bl808-lp">>

\* C9: CPU_CONFIG has exactly three slots, in the order mcu, dsp, lp; slot i
\* has config_enable = 1 exactly when the feature of core i is enabled and
\* is otherwise the record of HalCpuCfg::disabled(), all of whose fields
\* (config_enable and boot_entry among them) are 0.
C9_CpuConfigSlots ==
    cpuConfig # <<>> =>
        LET slots == cpuConfig[1] IN
        /\ HeaderStaticsBuilt(cfgFlags)
        /\ Len(slots) = 3
        /\ \A i \in 1..3 :
              /\ slots[i].config_enable \in {0, 1}
              /\ slots[i].config_enable = 1 <=> CoreFeatures[i] \in cfgFlags
              /\ CoreFeatures[i] \notin cfgFlags =>
                    /\ slots[i] = HalCpuCfg_disabled
                    /\ \A f \in DOMAIN slots[i] : slots[i][f] = 0
        /\ HalCpuCfg_disabled.config_enable = 0
        /\ HalCpuCfg_disabled.boot_entry = 0

W_C9_DspOnlyBuild ==
    /\ cfgFlags = {"bl808-dsp"}
    /\ cpuConfig # <<>>
    /\ cpuConfig[1][1].config_enable = 0
    /\ cpuConfig[1][2].config_enable = 1
    /\ cpuConfig[1][3].boot_entry = 0

(***************************************************************************)
(* SpecFrame: machine_external instruction by instruction                  *)
(***************************************************************************)
MaxSeed == 1         \* register files tried at entry
MaxSpare == 1        \* stack words free below the frame
MaxClobber == 1      \* register files the dispatcher may leave behind

Ins(op, reg, off, csr) == [op |-> op, reg |-> reg, off |-> off, csr |-> csr]

\* Registers stored in the frame, in the order of their words 0..15.
FrameRegs ==
    << "ra", "t0", "t1", "t2", "a0", "a1", "a2", "a3", "a4", "a5", "a6", "a7",
       "t3", "t4", "t5", "t6" >>

\* CSRs stored in the frame at words 16, 17, 18, each through its scratch
\* register t0, t1, t2.
FrameCsrs == << "mcause", "mepc", "mstatus" >>

GprNames == {FrameRegs[i] : i \in 1..Len(FrameRegs)} \cup {"sp"}

\* sd ra, 0*8(sp) ... sd t6, 15*8(sp)
SaveGprs_topDown == [i \in 1..16 |-> Ins("sd", FrameRegs[i], (16 - i) * 8, "")]
SaveGprs == [i \in 1..16 |-> Ins("sd", FrameRegs[i], (i - 1) * 8, "")]

\* csrr t0, mcause; sd t0, 16*8(sp); ... ; csrr t2, mstatus; sd t2, 18*8(sp)
SaveCsrs ==
    << Ins("csrr", "t0", 0, "mcause"),  Ins("sd", "t0", 16 * 8, ""),
       Ins("csrr", "t1", 0, "mepc"),    Ins("sd", "t1", 17 * 8, ""),
       Ins("csrr", "t2", 0, "mstatus"), Ins("sd", "t2", 18 * 8, "") >>

\* ld t0, 16*8(sp); csrw mcause, t0; ... ; ld t2, 18*8(sp); csrw mstatus, t2
RestoreCsrs ==
    << Ins("ld", "t0", 16 * 8, ""), Ins("csrw", "t0", 0, "mcause"),
       Ins("ld", "t1", 17 * 8, ""), Ins("csrw", "t1", 0, "mepc"),
       Ins("ld", "t2", 18 * 8, ""), Ins("csrw", "t2", 0, "mstatus") >>

\* ld ra, 0*8(sp) ... ld t6, 15*8(sp)
RestoreGprs == [i \in 1..16 |-> Ins("ld", FrameRegs[i], (i - 1) * 8, "")]

machine_external_asm_gprsFirst ==
    << Ins("addi", "sp", -19 * 8, "") >> \o SaveGprs \o SaveCsrs
    \o << Ins("mv", "a0", 0, ""), Ins("call", "", 0, "") >>
    \o RestoreGprs \o RestoreCsrs
    \o << Ins("addi", "sp", 19 * 8, ""), Ins("mret", "", 0, "") >>
machine_external_asm ==
    << Ins("addi", "sp", -19 * 8, "") >> \o SaveGprs \o SaveCsrs
    \o << Ins("mv", "a0", 0, ""), Ins("call", "", 0, "") >>
    \o RestoreCsrs \o RestoreGprs
    \o << Ins("addi", "sp", 19 * 8, ""), Ins("mret", "", 0, "") >>

\* mstatus bits: MIE is bit 3, MPIE bit 7, MPP bits 11..12.
MSTATUS_MIE == 8
MSTATUS_MPIE == 128
MSTATUS_MPP == \H1800
Bit(v, b) == (v \div b) % 2

\* mstatus once mret has executed: MIE takes MPIE, MPIE is set, MPP falls
\* to the least privileged mode.
MretStatus(m) ==
    m - MSTATUS_MIE * Bit(m, MSTATUS_MIE) + MSTATUS_MIE * Bit(m, MSTATUS_MPIE)
      + MSTATUS_MPIE * (1 - Bit(m, MSTATUS_MPIE))
      - (MSTATUS_MPP \div 3) * ((m \div (MSTATUS_MPP \div 3)) % 4)

\* Stack memory: word addresses 0, 8, .. below StackLimit.
StackLimit == 19 * 8 + 8 * (MaxSpare + 1)
WordAddrs == {8 * k : k \in 0..((StackLimit \div 8) - 1)}

\* Register files at entry: every register holds a value of its own.
EntryRegs(seed, top) ==
    [r \in GprNames |->
        IF r = "sp" THEN top
        ELSE 100 * (seed + 1) + (CHOOSE i \in 1..16 : FrameRegs[i] = r)]

\* What the dispatcher leaves in the caller-saved registers.
ClobberedRegs(rs, c) ==
    [r \in GprNames |->
        IF r = "sp" THEN rs[r]
        ELSE 1000 * (c + 1) + 17 - (CHOOSE i \in 1..16 : FrameRegs[i] = r)]

\* mstatus as trap entry from machine mode leaves it: MIE clear, MPP = M,
\* MPIE the interrupted code's MIE.
EntryMstatus == {MSTATUS_MPP, MSTATUS_MPP + MSTATUS_MPIE}

InitFrame ==
    /\ TrapIdle
    /\ ClockIdle
    /\ ImageIdle
    /\ StartIdle
    /\ UartIdle
    /\ FreerunIdle
    /\ FifoIdle
    /\ ip = 1
    /\ \E seed \in 0..MaxSeed, spare \in 0..MaxSpare :
          regs = EntryRegs(seed, 19 * 8 + 8 * spare)
    /\ \E seed \in 0..MaxSeed, st \in EntryMstatus :
          csrs = [mcause |-> 11 + 50 * seed, mepc |-> 40 + 4 * seed, mstatus |-> st]
    /\ mem = [a \in WordAddrs |-> 7000 + a]
    /\ atEntry = [regs |-> regs, csrs |-> csrs]
    /\ log = <<>>
    /\ resumed = -1

Fetch == machine_external_asm[ip]
Logged == IF \E i \in 1..(ip - 1) : machine_external_asm[i].op = "call"
          THEN Append(log, Fetch) ELSE log

\* addi sp, sp, imm
Addi ==
    /\ ip \in DOMAIN machine_external_asm /\ Fetch.op = "addi"
    /\ regs' = [regs EXCEPT ![Fetch.reg] = @ + Fetch.off]
    /\ ip' = ip + 1
    /\ log' = Logged
    /\ UNCHANGED <<notFrameVars, csrs, mem, atEntry, resumed>>

\* sd reg, off(sp)
Sd ==
    /\ ip \in DOMAIN machine_external_asm /\ Fetch.op = "sd"
    /\ mem' = [mem EXCEPT ![regs["sp"] + Fetch.off] = regs[Fetch.reg]]
    /\ ip' = ip + 1
    /\ log' = Logged
    /\ UNCHANGED <<notFrameVars, regs, csrs, atEntry, resumed>>

\* csrr reg, csr
Csrr ==
    /\ ip \in DOMAIN machine_external_asm /\ Fetch.op = "csrr"
    /\ regs' = [regs EXCEPT ![Fetch.reg] = csrs[Fetch.csr]]
    /\ ip' = ip + 1
    /\ log' = Logged
    /\ UNCHANGED <<notFrameVars, csrs, mem, atEntry, resumed>>

\* mv a0, sp
Mv ==
    /\ ip \in DOMAIN machine_external_asm /\ Fetch.op = "mv"
    /\ regs' = [regs EXCEPT ![Fetch.reg] = regs["sp"]]
    /\ ip' = ip + 1
    /\ log' = Logged
    /\ UNCHANGED <<notFrameVars, csrs, mem, atEntry, resumed>>

\* call rust_bl808_dsp_machine_external: the dispatcher and the handler it
\* runs return with sp as it was and the frame unwritten; the caller-saved
\* registers, the stack below the frame and (a handler may write them) the
\* trap CSRs hold whatever they left there.
Call(keep, c, csrsKept) ==
    /\ ip \in DOMAIN machine_external_asm /\ Fetch.op = "call"
    /\ regs' = IF keep THEN regs ELSE ClobberedRegs(regs, c)
    /\ mem' = IF keep THEN mem
              ELSE [a \in WordAddrs |-> IF a < regs["sp"] THEN 9000 + c ELSE mem[a]]
    /\ csrs' = IF csrsKept THEN csrs
               ELSE [mcause |-> 900 + c, mepc |-> 901 + c, mstatus |-> MSTATUS_MIE * c]
    /\ ip' = ip + 1
    /\ log' = <<>>
    /\ UNCHANGED <<notFrameVars, atEntry, resumed>>

\* ld reg, off(sp)
Ld ==
    /\ ip \in DOMAIN machine_external_asm /\ Fetch.op = "ld"
    /\ regs' = [regs EXCEPT ![Fetch.reg] = mem[regs["sp"] + Fetch.off]]
    /\ ip' = ip + 1
    /\ log' = Logged
    /\ UNCHANGED <<notFrameVars, csrs, mem, atEntry, resumed>>

\* csrw csr, reg
Csrw ==
    /\ ip \in DOMAIN machine_external_asm /\ Fetch.op = "csrw"
    /\ csrs' = [csrs EXCEPT ![Fetch.csr] = regs[Fetch.reg]]
    /\ ip' = ip + 1
    /\ log' = Logged
    /\ UNCHANGED <<notFrameVars, regs, mem, atEntry, resumed>>

\* mret: resume at mepc with mstatus.MIE taken from MPIE.
Mret ==
    /\ ip \in DOMAIN machine_external_asm /\ Fetch.op = "mret"
    /\ resumed' = csrs.mepc
    /\ csrs' = [csrs EXCEPT !.mstatus = MretStatus(@)]
    /\ ip' = 0
    /\ log' = Logged
    /\ UNCHANGED <<notFrameVars, regs, mem, atEntry>>

NextFrame ==
    \/ Addi
    \/ Sd
    \/ Csrr
    \/ Mv
    \/ \E keep \in BOOLEAN, c \in 0..MaxClobber, csrsKept \in BOOLEAN : Call(keep, c, csrsKept)
    \/ Ld
    \/ Csrw
    \/ Mret

SpecFrame == InitFrame /\ [][NextFrame]_vars

(***************************************************************************)
(* SpecStart: the entry routine `start` of the MCU and of the DSP core     *)
(***************************************************************************)
MaxBase == 1         \* region start addresses tried: 0..MaxBase past the window base
MaxLen == 9          \* region lengths tried, in bytes

LEN_STACK_MCU == 1 * 1024
LEN_STACK_DSP == 4 * 1024

hart_stack_size(c) == IF c = "mcu" THEN LEN_STACK_MCU ELSE LEN_STACK_DSP

\* Bytes moved by one store of the loops: sw / lw on the MCU, sd / ld on
\* the DSP core.
WordBytes(c) == IF c = "mcu" THEN 4 ELSE 8

stack_protect_pmp_address_sizeShiftedByTwo ==
    (\H3E000000 \div 4) + ((16 * 1024 * 1024) \div 4) - 1
stack_protect_pmp_address == (\H3E000000 \div 4) + ((16 * 1024 * 1024) \div 8) - 1
stack_protect_pmp_flags == 24     \* 0b00011000

\* The RAM window of the model: the data run region and the load image lie
\* in [0, BssBase), the zero-initialised region starts at BssBase or after;
\* one word past every region is part of the window.
DataLimit == MaxBase + MaxLen + 2
BssBase == DataLimit + MaxLen + 8
RamSize == BssBase + MaxBase + MaxLen + 8
RamAddrs == 0..(RamSize - 1)

\* RAM and registers hold whatever reset left there: no byte is zero.
ResetByte(a) == 1 + (a % 7)

Overlap(a, b, len) == len > 0 /\ a < b + len /\ b < a + len

\* Linker symbols of one image.
Layouts ==
    { [sbss |-> BssBase + b, ebss |-> BssBase + b + bl,
       sdata |-> d, edata |-> d + dl, sidata |-> si] :
         b \in 0..MaxBase, bl \in 0..MaxLen, d \in 0..MaxBase, dl \in 0..MaxLen,
         si \in 0..DataLimit }

NonOverlapping(l) == ~Overlap(l.sidata, l.sdata, l.edata - l.sdata)

StackAt(c) == IF c = "mcu" THEN \H62020000 ELSE \H3EF80000
TrapVectoredAt == \H3EFF0000

InitStart ==
    /\ TrapIdle
    /\ ClockIdle
    /\ ImageIdle
    /\ FrameIdle
    /\ UartIdle
    /\ FreerunIdle
    /\ FifoIdle
    /\ core \in {"mcu", "dsp"}
    /\ \E l \in {l \in Layouts : NonOverlapping(l)} :
          sym = [stack |-> StackAt(core), trap_vectored |-> TrapVectoredAt,
                 sbss |-> l.sbss, ebss |-> l.ebss, sidata |-> l.sidata,
                 sdata |-> l.sdata, edata |-> l.edata]
    /\ spc = "sp"
    /\ sreg = [sp |-> -1, t0 |-> -1, t1 |-> -1, t2 |-> -1, t3 |-> -1, t4 |-> -1,
               t5 |-> -1, t6 |-> <<>>]
    /\ ram = [a \in RamAddrs |-> ResetByte(a)]
    /\ ramAtCopy = <<>>
    /\ scsr = [mtvec |-> -1, pmpaddr0 |-> -1, pmpcfg0 |-> -1]
    /\ done = <<>>
    /\ mainCalls = 0
    /\ access = <<>>

\* la sp, {stack}; li t0, {hart_stack_size}; add sp, sp, t0
SetSp ==
    /\ spc = "sp"
    /\ sreg' = [sreg EXCEPT !.t0 = hart_stack_size(core),
                            !.sp = sym.stack + hart_stack_size(core)]
    /\ done' = Append(done, "sp")
    /\ spc' = "la_bss"
    /\ UNCHANGED <<notStartVars, core, sym, ram, ramAtCopy, scsr, mainCalls, access>>

\* la t1, sbss; la t2, ebss
LoadBssBounds ==
    /\ spc = "la_bss"
    /\ sreg' = [sreg EXCEPT !.t1 = sym.sbss, !.t2 = sym.ebss]
    /\ spc' = "zero"
    /\ UNCHANGED <<notStartVars, core, sym, ram, ramAtCopy, scsr, done, mainCalls, access>>

ZeroStep_storesFour ==
    /\ spc = "zero"
    /\ sreg.t1 < sreg.t2
    /\ ram' = [a \in RamAddrs |->
                  IF a >= sreg.t1 /\ a < sreg.t1 + 4 THEN 0 ELSE ram[a]]
    /\ sreg' = [sreg EXCEPT !.t1 = @ + WordBytes(core)]
    /\ UNCHANGED <<notStartVars, core, sym, spc, ramAtCopy, scsr, done, mainCalls, access>>
\* 1: bgeu t1, t2, 1f (not taken); sw / sd zero, 0(t1); addi t1, t1, 4 / 8; j 1b
ZeroStep ==
    /\ spc = "zero"
    /\ sreg.t1 < sreg.t2
    /\ ram' = [a \in RamAddrs |->
                  IF a >= sreg.t1 /\ a < sreg.t1 + WordBytes(core) THEN 0 ELSE ram[a]]
    /\ sreg' = [sreg EXCEPT !.t1 = @ + WordBytes(core)]
    /\ UNCHANGED <<notStartVars, core, sym, spc, ramAtCopy, scsr, done, mainCalls, access>>

\* 1: bgeu t1, t2, 1f (taken)
ZeroExit ==
    /\ spc = "zero"
    /\ sreg.t1 >= sreg.t2
    /\ done' = Append(done, "bss")
    /\ spc' = "la_data"
    /\ UNCHANGED <<notStartVars, core, sym, sreg, ram, ramAtCopy, scsr, mainCalls, access>>

\* la t3, sidata; la t4, sdata; la t5, edata
LoadDataBounds ==
    /\ spc = "la_data"
    /\ sreg' = [sreg EXCEPT !.t3 = sym.sidata, !.t4 = sym.sdata, !.t5 = sym.edata]
    /\ ramAtCopy' = ram
    /\ spc' = "copy"
    /\ UNCHANGED <<notStartVars, core, sym, ram, scsr, done, mainCalls, access>>

\* 1: bgeu t4, t5, 1f (not taken); lw / ld t6, 0(t3); sw / sd t6, 0(t4);
\* addi t3, t3, 4 / 8; addi t4, t4, 4 / 8; j 1b
CopyStep ==
    /\ spc = "copy"
    /\ sreg.t4 < sreg.t5
    /\ LET w == WordBytes(core)
           loaded == [i \in 0..(w - 1) |-> ram[sreg.t3 + i]]
       IN /\ ram' = [a \in RamAddrs |->
                        IF a >= sreg.t4 /\ a < sreg.t4 + w THEN loaded[a - sreg.t4]
                        ELSE ram[a]]
          /\ sreg' = [sreg EXCEPT !.t6 = loaded, !.t3 = @ + w, !.t4 = @ + w]
    /\ UNCHANGED <<notStartVars, core, sym, spc, ramAtCopy, scsr, done, mainCalls, access>>

CopyExit_skipsCsrWrites ==
    /\ spc = "copy"
    /\ sreg.t4 >= sreg.t5
    /\ done' = Append(done, "data")
    /\ spc' = "call_main"
    /\ UNCHANGED <<notStartVars, core, sym, sreg, ram, ramAtCopy, scsr, mainCalls, access>>
\* 1: bgeu t4, t5, 1f (taken); the DSP variant goes on to the CSR writes,
\* the MCU variant to the call of main.
CopyExit ==
    /\ spc = "copy"
    /\ sreg.t4 >= sreg.t5
    /\ done' = Append(done, "data")
    /\ spc' = IF core = "dsp" THEN "mtvec" ELSE "call_main"
    /\ UNCHANGED <<notStartVars, core, sym, sreg, ram, ramAtCopy, scsr, mainCalls, access>>

\* la t0, {trap_entry}; ori t0, t0, {trap_mode}; csrw mtvec, t0
WriteMtvec ==
    /\ spc = "mtvec"
    /\ sreg' = [sreg EXCEPT !.t0 = MtvecValue(sym.trap_vectored)]
    /\ scsr' = [scsr EXCEPT !.mtvec = MtvecValue(sym.trap_vectored)]
    /\ done' = Append(done, "mtvec")
    /\ spc' = "pmpaddr0"
    /\ UNCHANGED <<notStartVars, core, sym, ram, ramAtCopy, mainCalls, access>>

\* li t1, {stack_protect_pmp_address}; csrw pmpaddr0, t1
WritePmpaddr0 ==
    /\ spc = "pmpaddr0"
    /\ sreg' = [sreg EXCEPT !.t1 = stack_protect_pmp_address]
    /\ scsr' = [scsr EXCEPT !.pmpaddr0 = stack_protect_pmp_address]
    /\ done' = Append(done, "pmpaddr0")
    /\ spc' = "pmpcfg0"
    /\ UNCHANGED <<notStartVars, core, sym, ram, ramAtCopy, mainCalls, access>>

\* li t2, {stack_protect_pmp_flags}; csrw pmpcfg0, t2
WritePmpcfg0 ==
    /\ spc = "pmpcfg0"
    /\ sreg' = [sreg EXCEPT !.t2 = stack_protect_pmp_flags]
    /\ scsr' = [scsr EXCEPT !.pmpcfg0 = stack_protect_pmp_flags]
    /\ done' = Append(done, "pmpcfg0")
    /\ spc' = "call_main"
    /\ UNCHANGED <<notStartVars, core, sym, ram, ramAtCopy, mainCalls, access>>

\* call {main}; main never returns.
CallMain ==
    /\ spc = "call_main"
    /\ mainCalls' = mainCalls + 1
    /\ done' = Append(done, "main")
    /\ spc' = "main"
    /\ UNCHANGED <<notStartVars, core, sym, sreg, ram, ramAtCopy, scsr, access>>

NextStart ==
    \/ SetSp
    \/ LoadBssBounds
    \/ ZeroStep
    \/ ZeroExit
    \/ LoadDataBounds
    \/ CopyStep
    \/ CopyExit
    \/ WriteMtvec
    \/ WritePmpaddr0
    \/ WritePmpcfg0
    \/ CallMain

SpecStart == InitStart /\ [][NextStart]_vars

\* The hart executes instructions as long as there is one to execute.
SpecStartFair == SpecStart /\ WF_vars(NextStart)

(***************************************************************************)
(* SpecPmp: the DSP core's stack guard, exercised after start              *)
(***************************************************************************)
MaxBelow == 3        \* doublewords below the base of STACK that are accessed
MaxWithin == 1       \* doublewords from the base of STACK upward that are accessed

\* pmpcfg fields: R bit 0, W bit 1, X bit 2, A bits 3..4, L bit 7; a field is
\* read by the weight of its lowest bit and its number of values.
PmpField(cfg, bit, width) == (cfg \div bit) % width
PMP_NAPOT == 3

RECURSIVE TrailingOnes(_)
TrailingOnes(v) == IF v % 2 = 1 THEN 1 + TrailingOnes(v \div 2) ELSE 0

RECURSIVE Pow2(_)
Pow2(n) == IF n = 0 THEN 1 ELSE 2 * Pow2(n - 1)

\* The naturally aligned power-of-two range a NAPOT pmpaddr encodes: with t
\* trailing ones, 2^(t+3) bytes from the address in the bits above them.
NapotSize(pmpaddr) == Pow2(TrailingOnes(pmpaddr) + 3)
NapotBase(pmpaddr) ==
    (pmpaddr - (pmpaddr % Pow2(TrailingOnes(pmpaddr) + 1))) * 4

\* Bytes [a, a + n) against PMP entry 0: "none", "part" or "all" of them lie
\* in the entry's range.
PmpMatch(cfg, pmpaddr, a, n) ==
    IF PmpField(cfg, 8, 4) # PMP_NAPOT THEN "none"
    ELSE LET lo == NapotBase(pmpaddr)
             hi == lo + NapotSize(pmpaddr)
         IN IF a >= lo /\ a + n <= hi THEN "all"
            ELSE IF a + n <= lo \/ a >= hi THEN "none"
            ELSE "part"

\* RISC-V PMP check of one access.  An entry must match all bytes or the
\* access fails; an entry with L clear does not bind machine mode; with no
\* matching entry machine mode succeeds and lower modes fail.
PmpAllows(mode, cfg, pmpaddr, a, n, kind) ==
    LET m == PmpMatch(cfg, pmpaddr, a, n) IN
    IF m = "none" THEN mode = "M"
    ELSE IF m = "part" THEN FALSE
    ELSE IF mode = "M" /\ PmpField(cfg, 128, 2) = 0 THEN TRUE
    ELSE IF kind = "load" THEN PmpField(cfg, 1, 2) = 1 ELSE PmpField(cfg, 2, 2) = 1

\* Link addresses of STACK tried: inside the PMP range, ending with it,
\* reaching below its start, starting at its end, and outside it.
StackSamples == {\H3EF80000, \H3EFFF000, \H3E000000, \H3F000000, \H50100000}

InitPmp ==
    /\ TrapIdle
    /\ ClockIdle
    /\ ImageIdle
    /\ FrameIdle
    /\ UartIdle
    /\ FreerunIdle
    /\ FifoIdle
    /\ core = "dsp"
    /\ \E st \in StackSamples :
          sym = [stack |-> st, trap_vectored |-> TrapVectoredAt,
                 sbss |-> BssBase, ebss |-> BssBase + MaxLen, sidata |-> DataLimit,
                 sdata |-> 0, edata |-> MaxLen]
    /\ spc = "sp"
    /\ sreg = [sp |-> -1, t0 |-> -1, t1 |-> -1, t2 |-> -1, t3 |-> -1, t4 |-> -1,
               t5 |-> -1, t6 |-> <<>>]
    /\ ram = [a \in RamAddrs |-> ResetByte(a)]
    /\ ramAtCopy = <<>>
    /\ scsr = [mtvec |-> -1, pmpaddr0 |-> -1, pmpcfg0 |-> -1]
    /\ done = <<>>
    /\ mainCalls = 0
    /\ access = <<>>

\* Code running after start (main in machine mode, or code main has entered
\* in user mode) loads or stores the doubleword at address a.  A denied
\* access raises an access fault: an exception, which enters the base of the
\* vector table, whose slot 0 jumps to `reserved`.
MemAccess(mode, kind, a) ==
    /\ spc = "main"
    /\ LET ok == PmpAllows(mode, scsr.pmpcfg0, scsr.pmpaddr0, a, 8, kind)
           target == TrapTarget(scsr.mtvec, FALSE, IF kind = "load" THEN 5 ELSE 7)
       IN /\ access' = [mode |-> mode, kind |-> kind, addr |-> a, denied |-> ~ok,
                        wrote |-> ok /\ kind = "store"]
          /\ spc' = IF ok THEN "main"
                    ELSE trap_vectored[((target - sym.trap_vectored) \div 4) + 1]
    /\ UNCHANGED <<notStartVars, core, sym, sreg, ram, ramAtCopy, scsr, done, mainCalls>>

AccessAddrs == {sym.stack + 8 * k : k \in (0 - MaxBelow)..MaxWithin}

NextPmp ==
    \/ NextStart
    \/ \E mode \in {"M", "U"}, kind \in {"load", "store"}, a \in AccessAddrs :
          MemAccess(mode, kind, a)

SpecPmp == InitPmp /\ [][NextPmp]_vars

(***************************************************************************)
(* SpecUart: TransmitConfig and ReceiveConfig of the UART (src/uart.rs)    *)
(***************************************************************************)
MaxCalls == 2        \* methods called in a row on one value

\* u32 values are the sets of their one bits, bit 0 the least significant:
\* a | b is the union, a & b the intersection, !a the complement in WordBits.
WordBits == 0..31
WShl(a, k) == {b + k : b \in a} \cap WordBits
WShr(a, k) == {b - k : b \in a} \cap WordBits
\* The u32 of a number below 2^31, and the number of a u32 below 2^31.
WordOf(n) == {i \in 0..30 : (n \div Pow2(i)) % 2 = 1}
RECURSIVE NatOf(_)
NatOf(w) == IF w = {} THEN 0
            ELSE LET b == CHOOSE b \in w : TRUE IN Pow2(b) + NatOf(w \ {b})

\* BitField<LEN, SHIFT, u32>, f = <<LEN, SHIFT>>: the LEN bits from bit SHIFT
\* upward of a u32.
BitField_mask(f) == WShl(WordOf(Pow2(f[1]) - 1), f[2])
BitField_enable(f, v) == v \cup BitField_mask(f)
BitField_disable(f, v) == v \cap (WordBits \ BitField_mask(f))
BitField_is_enabled(f, v) == v \cap BitField_mask(f) # {}
BitField_set(f, v, val) ==
    (v \cap (WordBits \ BitField_mask(f))) \cup (WShl(WordOf(val), f[2]) \cap BitField_mask(f))
BitField_get(f, v) == NatOf(WShr(v \cap BitField_mask(f), f[2]))

\* mod transmit_config / mod receive_config: <<LEN, SHIFT>> of the aliases.
transmit_config ==
    [Enable |-> <<1, 0>>, ParityEnable |-> <<1, 4>>, ParityMode |-> <<1, 5>>,
     WordLength |-> <<3, 8>>]
receive_config ==
    [Enable |-> <<1, 0>>, ParityEnable |-> <<1, 4>>, ParityMode |-> <<1, 5>>,
     WordLength |-> <<3, 8>>]

\* impl TransmitConfig: the associated constants.
TransmitConfig_ctsOnFreerunBit ==
    [CTS |-> WShl(WordOf(1), 2),
     FREERUN |-> WShl(WordOf(1), 2),
     LIN_TRANSMIT |-> WShl(WordOf(1), 3),
     IR_TRANSMIT |-> WShl(WordOf(1), 6),
     IR_INVERSE |-> WShl(WordOf(1), 7),
     STOP_BITS |-> WShl(WordOf(3), 11),
     LIN_BREAK_BITS |-> WShl(WordOf(7), 13),
     TRANSFER_LENGTH |-> WShl(WordOf(\Hffff), 16)]
TransmitConfig ==
    [CTS |-> WShl(WordOf(1), 1),
     FREERUN |-> WShl(WordOf(1), 2),
     LIN_TRANSMIT |-> WShl(WordOf(1), 3),
     IR_TRANSMIT |-> WShl(WordOf(1), 6),
     IR_INVERSE |-> WShl(WordOf(1), 7),
     STOP_BITS |-> WShl(WordOf(3), 11),
     LIN_BREAK_BITS |-> WShl(WordOf(7), 13),
     TRANSFER_LENGTH |-> WShl(WordOf(\Hffff), 16)]

\* enable_x / disable_x: the method named op applied to the value v.
FlagMethods ==
    { "enable_txd", "disable_txd", "enable_cts", "disable_cts", "enable_freerun",
      "disable_freerun", "enable_lin_transmit", "disable_lin_transmit",
      "enable_ir_transmit", "disable_ir_transmit", "enable_ir_inverse",
      "disable_ir_inverse" }
FlagMethod(op, v) ==
    CASE op = "enable_txd" -> BitField_enable(transmit_config.Enable, v)
      [] op = "disable_txd" -> BitField_disable(transmit_config.Enable, v)
      [] op = "enable_cts" -> v \cup TransmitConfig.CTS
      [] op = "disable_cts" -> v \cap (WordBits \ TransmitConfig.CTS)
      [] op = "enable_freerun" -> v \cup TransmitConfig.FREERUN
      [] op = "disable_freerun" -> v \cap (WordBits \ TransmitConfig.FREERUN)
      [] op = "enable_lin_transmit" -> v \cup TransmitConfig.LIN_TRANSMIT
      [] op = "disable_lin_transmit" -> v \cap (WordBits \ TransmitConfig.LIN_TRANSMIT)
      [] op = "enable_ir_transmit" -> v \cup TransmitConfig.IR_TRANSMIT
      [] op = "disable_ir_transmit" -> v \cap (WordBits \ TransmitConfig.IR_TRANSMIT)
      [] op = "enable_ir_inverse" -> v \cup TransmitConfig.IR_INVERSE
      [] op = "disable_ir_inverse" -> v \cap (WordBits \ TransmitConfig.IR_INVERSE)

\* is_x_enabled: the getter named op applied to the value v.
FlagGetter(op, v) ==
    CASE op = "is_txd_enabled" -> BitField_is_enabled(transmit_config.Enable, v)
      [] op = "is_cts_enabled" -> v \cap TransmitConfig.CTS # {}
      [] op = "is_freerun_enabled" -> v \cap TransmitConfig.FREERUN # {}
      [] op = "is_lin_transmit_enabled" -> v \cap TransmitConfig.LIN_TRANSMIT # {}
      [] op = "is_ir_transmit_enabled" -> v \cap TransmitConfig.IR_TRANSMIT # {}
      [] op = "is_ir_inverse_enabled" -> v \cap TransmitConfig.IR_INVERSE # {}

Parity == {"None", "Even", "Odd"}
WordLength == {"Five", "Six", "Seven", "Eight"}
StopBits == {"ZeroPointFive", "One", "OnePointFive", "Two"}

TransmitConfig_set_parity_modeOnly(v, parity) ==
    CASE parity = "Even" -> BitField_disable(transmit_config.ParityMode, v)
      [] parity = "Odd" -> BitField_enable(transmit_config.ParityMode, v)
      [] parity = "None" -> BitField_disable(transmit_config.ParityEnable, v)
TransmitConfig_set_parity(v, parity) ==
    LET field_en == BitField_enable(transmit_config.ParityEnable, v)
    IN CASE parity = "Even" -> BitField_disable(transmit_config.ParityMode, field_en)
         [] parity = "Odd" -> BitField_enable(transmit_config.ParityMode, field_en)
         [] parity = "None" -> BitField_disable(transmit_config.ParityEnable, v)
TransmitConfig_parity(v) ==
    IF ~BitField_is_enabled(transmit_config.ParityEnable, v) THEN "None"
    ELSE IF ~BitField_is_enabled(transmit_config.ParityMode, v) THEN "Even"
    ELSE "Odd"

ReceiveConfig_set_parity(v, parity) ==
    LET field_en == BitField_enable(receive_config.ParityEnable, v)
    IN CASE parity = "Even" -> BitField_disable(receive_config.ParityMode, field_en)
         [] parity = "Odd" -> BitField_enable(receive_config.ParityMode, field_en)
         [] parity = "None" -> BitField_disable(receive_config.ParityEnable, v)
ReceiveConfig_parity(v) ==
    IF ~BitField_is_enabled(receive_config.ParityEnable, v) THEN "None"
    ELSE IF ~BitField_is_enabled(receive_config.ParityMode, v) THEN "Even"
    ELSE "Odd"

set_word_length(v, val) ==
    LET n == CASE val = "Five" -> 4 [] val = "Six" -> 5
               [] val = "Seven" -> 6 [] val = "Eight" -> 7
    IN BitField_set(transmit_config.WordLength, v, n)
word_length(v) ==
    LET n == BitField_get(transmit_config.WordLength, v)
    IN CASE n = 4 -> "Five" [] n = 5 -> "Six" [] n = 6 -> "Seven" [] n = 7 -> "Eight"
         [] OTHER -> "unreachable"

set_stop_bits_noClear(v, val) ==
    LET n == CASE val = "ZeroPointFive" -> 0 [] val = "One" -> 1
               [] val = "OnePointFive" -> 2 [] val = "Two" -> 3
    IN v \cup WShl(WordOf(n), 11)
set_stop_bits(v, val) ==
    LET n == CASE val = "ZeroPointFive" -> 0 [] val = "One" -> 1
               [] val = "OnePointFive" -> 2 [] val = "Two" -> 3
    IN (v \cap (WordBits \ TransmitConfig.STOP_BITS)) \cup WShl(WordOf(n), 11)
stop_bits(v) ==
    LET n == NatOf(WShr(v \cap TransmitConfig.STOP_BITS, 11))
    IN CASE n = 0 -> "ZeroPointFive" [] n = 1 -> "One" [] n = 2 -> "OnePointFive"
         [] n = 3 -> "Two" [] OTHER -> "unreachable"

\* bits: u8
set_lin_break_bits(v, bits) ==
    (v \cap (WordBits \ TransmitConfig.LIN_BREAK_BITS)) \cup WShl(WordOf(bits), 13)
lin_break_bits(v) ==
    NatOf(WShr(v \cap TransmitConfig.LIN_BREAK_BITS, 13) \cap 0..7)

\* length: u16
set_transfer_length(v, length) ==
    (v \cap (WordBits \ TransmitConfig.TRANSFER_LENGTH)) \cup WShl(WordOf(length), 16)
transfer_length(v) ==
    NatOf(WShr(v \cap TransmitConfig.TRANSFER_LENGTH, 16) \cap 0..15)

\* impl BitPeriod: the associated constants.
BitPeriod ==
    [TRANSMIT |-> WordOf(\Hffff),
     RECEIVE |-> WShl(WordOf(\Hffff), 16)]

\* val: u16
set_transmit_time_interval_noClear(v, val) == v \cup WordOf(val)
set_transmit_time_interval(v, val) ==
    (v \cap (WordBits \ BitPeriod.TRANSMIT)) \cup WordOf(val)
transmit_time_interval(v) == NatOf((v \cap BitPeriod.TRANSMIT) \cap 0..15)
set_receive_time_interval(v, val) ==
    (v \cap (WordBits \ BitPeriod.RECEIVE)) \cup WShl(WordOf(val), 16)
receive_time_interval(v) == NatOf(WShr(v \cap BitPeriod.RECEIVE, 16) \cap 0..15)
\* Register values tried: 0, 0xFFFFFFFF, 0x55555555, 0xAAAAAAAA, the values
\* of the tests' transfer lengths in both halves, and every parity setting
\* alone.
LengthSamples == {0, \H1234, \Habcd, \Hffff}
PeriodSamples == {0, 1, \H1037, \Habcd, \Hffff}
WordSamples ==
    { {}, WordBits, {b \in WordBits : b % 2 = 0}, {b \in WordBits : b % 2 = 1},
      WordOf(\H1234) \cup WShl(WordOf(\Habcd), 16),
      WordOf(\Habcd) \cup WShl(WordOf(\H1234), 16),
      WordOf(\H10), WordOf(\H20), WordOf(\H30) }

InitUart ==
    /\ TrapIdle
    /\ ClockIdle
    /\ ImageIdle
    /\ FrameIdle
    /\ StartIdle
    /\ FreerunIdle
    /\ FifoIdle
    /\ cfgReg \in [ty : {"TransmitConfig", "ReceiveConfig", "BitPeriod"}, v : WordSamples]
    /\ lastCall = <<>>
    /\ nCalls = 0

\* val = val.method(arg)
Called(op, arg, result) ==
    /\ nCalls < MaxCalls
    /\ cfgReg' = [cfgReg EXCEPT !.v = result]
    /\ lastCall' = [op |-> op, arg |-> arg, before |-> cfgReg.v]
    /\ nCalls' = nCalls + 1
    /\ UNCHANGED notUartVars

TxFlag(op) ==
    /\ cfgReg.ty = "TransmitConfig"
    /\ Called(op, "", FlagMethod(op, cfgReg.v))

TxSetParity(p) ==
    /\ cfgReg.ty = "TransmitConfig"
    /\ Called("set_parity", p, TransmitConfig_set_parity(cfgReg.v, p))

RxSetParity(p) ==
    /\ cfgReg.ty = "ReceiveConfig"
    /\ Called("set_parity", p, ReceiveConfig_set_parity(cfgReg.v, p))

TxSetWordLength(w) ==
    /\ cfgReg.ty = "TransmitConfig"
    /\ Called("set_word_length", w, set_word_length(cfgReg.v, w))

TxSetStopBits(s) ==
    /\ cfgReg.ty = "TransmitConfig"
    /\ Called("set_stop_bits", s, set_stop_bits(cfgReg.v, s))

TxSetLinBreakBits(b) ==
    /\ cfgReg.ty = "TransmitConfig"
    /\ Called("set_lin_break_bits", b, set_lin_break_bits(cfgReg.v, b))

TxSetTransferLength(n) ==
    /\ cfgReg.ty = "TransmitConfig"
    /\ Called("set_transfer_length", n, set_transfer_length(cfgReg.v, n))

BpSetTransmit(t) ==
    /\ cfgReg.ty = "BitPeriod"
    /\ Called("set_transmit_time_interval", t, set_transmit_time_interval(cfgReg.v, t))

BpSetReceive(t) ==
    /\ cfgReg.ty = "BitPeriod"
    /\ Called("set_receive_time_interval", t, set_receive_time_interval(cfgReg.v, t))

NextUart ==
    \/ \E op \in FlagMethods : TxFlag(op)
    \/ \E p \in Parity : TxSetParity(p)
    \/ \E p \in Parity : RxSetParity(p)
    \/ \E w \in WordLength : TxSetWordLength(w)
    \/ \E s \in StopBits : TxSetStopBits(s)
    \/ \E b \in 0..7 : TxSetLinBreakBits(b)
    \/ \E n \in LengthSamples : TxSetTransferLength(n)
    \/ \E t \in PeriodSamples : BpSetTransmit(t)
    \/ \E t \in PeriodSamples : BpSetReceive(t)

SpecUart == InitUart /\ [][NextUart]_vars

(***************************************************************************)
(* SpecFreerun: Serial::freerun over the pin tuples that implement Pins    *)
(***************************************************************************)
\* The pin tuple types with an impl of Pins<U>, each written as the
\* UartMux signals of its elements, and the constants its impl declares.
PinTuples ==
    { <<"MuxTxd">>,
      <<"MuxTxd", "MuxRxd">>,
      <<"MuxTxd", "MuxCts">>,
      <<"MuxTxd", "MuxRxd", "MuxRts", "MuxCts">> }
Pins(tuple) ==
    CASE tuple = <<"MuxTxd">> ->
            [RTS |-> FALSE, CTS |-> FALSE, TXD |-> TRUE, RXD |-> FALSE]
      [] tuple = <<"MuxTxd", "MuxRxd">> ->
            [RTS |-> FALSE, CTS |-> FALSE, TXD |-> TRUE, RXD |-> TRUE]
      [] tuple = <<"MuxTxd", "MuxCts">> ->
            [RTS |-> FALSE, CTS |-> TRUE, TXD |-> TRUE, RXD |-> FALSE]
      [] tuple = <<"MuxTxd", "MuxRxd", "MuxRts", "MuxCts">> ->
            [RTS |-> FALSE, CTS |-> TRUE, TXD |-> TRUE, RXD |-> FALSE]

BitOrder == {"LsbFirst", "MsbFirst"}
Config == [bit_order : BitOrder, parity : Parity, stop_bits : StopBits,
           word_length : WordLength]

\* impl DataConfig: BIT_ORDER = 1 << 0
set_bit_order(v, val) ==
    CASE val = "LsbFirst" -> v \cap (WordBits \ WShl(WordOf(1), 0))
      [] val = "MsbFirst" -> v \cup WShl(WordOf(1), 0)

enable_rxd(v) == BitField_enable(receive_config.Enable, v)
ReceiveConfig_set_word_length(v, val) ==
    LET n == CASE val = "Five" -> 4 [] val = "Six" -> 5
               [] val = "Seven" -> 6 [] val = "Eight" -> 7
    IN BitField_set(receive_config.WordLength, v, n)

\* clocks.uart_clock::<I>(), <<>> for None and <<hz>> for Some(Hertz(hz)),
\* and the baudrates tried: quotients 0, 1, 20, 347, 65466, 65535 and, above
\* the range, 65536, 65573 and more.
ClockSamples == {<<>>, <<1>>, <<65535>>, <<65536>>, <<40000000>>}
BaudSamples == {0, 1, 2, 610, 611, 115200, 2000000}

InitFreerun ==
    /\ TrapIdle
    /\ ClockIdle
    /\ ImageIdle
    /\ FrameIdle
    /\ StartIdle
    /\ UartIdle
    /\ FifoIdle
    /\ frIn \in [pins : PinTuples, clock : ClockSamples, baud : BaudSamples,
                 config : Config]
    /\ frPc = "entry"
    /\ interval = -1
    /\ uartWrites = <<>>

\* unsafe { uart.<reg>.write(val) }, then on to the next statement
WriteReg(reg, val, next) ==
    /\ uartWrites' = Append(uartWrites, [reg |-> reg, val |-> val])
    /\ frPc' = next
    /\ UNCHANGED <<notFreerunVars, frIn, interval>>

\* let uart_clock = ....expect(..); let interval = uart_clock.0 / baudrate.0;
\* if !(1..=65535).contains(&interval) { panic!(..) }
ComputeInterval ==
    /\ frPc = "entry"
    /\ IF frIn.clock = <<>> \/ frIn.baud = 0
       THEN frPc' = "panic" /\ interval' = interval
       ELSE /\ interval' = frIn.clock[1] \div frIn.baud
            /\ frPc' = IF interval' \in 1..65535 THEN "bit_period" ELSE "panic"
    /\ UNCHANGED <<notFreerunVars, frIn, uartWrites>>

WriteBitPeriod_transmitOnly ==
    /\ frPc = "bit_period"
    /\ WriteReg("bit_period", set_transmit_time_interval({}, interval),
                "data_config")
WriteBitPeriod ==
    /\ frPc = "bit_period"
    /\ WriteReg("bit_period",
                set_receive_time_interval(
                    set_transmit_time_interval({}, interval), interval),
                "data_config")

WriteDataConfig ==
    /\ frPc = "data_config"
    /\ WriteReg("data_config", set_bit_order({}, frIn.config.bit_order),
                "transmit_config")

WriteTransmitConfig ==
    /\ frPc = "transmit_config"
    /\ LET v0 == set_word_length(
                     set_stop_bits(
                         TransmitConfig_set_parity(
                             FlagMethod("enable_freerun", {}), frIn.config.parity),
                         frIn.config.stop_bits),
                     frIn.config.word_length)
           v1 == IF Pins(frIn.pins).TXD THEN FlagMethod("enable_txd", v0) ELSE v0
           v2 == IF Pins(frIn.pins).CTS THEN FlagMethod("enable_cts", v1) ELSE v1
       IN WriteReg("transmit_config", v2, "receive_config")

WriteReceiveConfig ==
    /\ frPc = "receive_config"
    /\ LET v0 == ReceiveConfig_set_word_length(
                     ReceiveConfig_set_parity({}, frIn.config.parity),
                     frIn.config.word_length)
           v1 == IF Pins(frIn.pins).RXD THEN enable_rxd(v0) ELSE v0
       IN WriteReg("receive_config", v1, "done")

NextFreerun ==
    \/ ComputeInterval
    \/ WriteBitPeriod
    \/ WriteDataConfig
    \/ WriteTransmitConfig
    \/ WriteReceiveConfig

SpecFreerun == InitFreerun /\ [][NextFreerun]_vars

(***************************************************************************)
(* SpecFifo: Serial::write, Serial::read and Serial::flush against the     *)
(* UART FIFOs, the hardware draining and filling them between any two      *)
(* register accesses of the driver                                         *)
(***************************************************************************)
MaxBuf == 3          \* longest buf passed to write or read
MaxArrivals == 2     \* bytes arriving on the receive line during the run
MaxSerial == 2       \* calls of the driver in one run

\* Depth of each FIFO (the 32 of Serial::flush).
FifoDepth == 32

\* impl FifoConfig1: the count fields.
FifoConfig1 ==
    [TRANSMIT_COUNT |-> WordOf(\H3f),
     RECEIVE_COUNT |-> WShl(WordOf(\H3f), 8)]
transmit_available_bytes(v) == NatOf((v \cap FifoConfig1.TRANSMIT_COUNT) \cap 0..7)
receive_available_bytes(v) == NatOf(WShr(v \cap FifoConfig1.RECEIVE_COUNT, 8) \cap 0..7)

\* self.uart.fifo_config_1.read(): the hardware's counts in their fields.
fifo_config_1 == WordOf(txFree) \cup WShl(WordOf(Len(rxQ)), 8)

Min(a, b) == IF a < b THEN a ELSE b

\* Buffers: write gets the bytes 11, 12, ..; read gets slots holding 0.
WriteBufs == {[i \in 1..n |-> 10 + i] : n \in 0..MaxBuf}
ReadBufs == {[i \in 1..n |-> 0] : n \in 0..MaxBuf}
RxFill(n) == [i \in 1..n |-> i]

InitFifo ==
    /\ TrapIdle
    /\ ClockIdle
    /\ ImageIdle
    /\ FrameIdle
    /\ StartIdle
    /\ UartIdle
    /\ FreerunIdle
    /\ \/ /\ txFree \in {0, 1, 2, FifoDepth}
          /\ rxQ = <<>>
          /\ nArrived = 0
          /\ rxLine = 0
       \/ /\ txFree = FifoDepth
          /\ \E n \in {0, 1, 2, FifoDepth} : rxQ = RxFill(n) /\ nArrived = n
          /\ rxLine = MaxArrivals
    /\ sPc = "idle"
    /\ sBuf = <<>>
    /\ sLen = -1
    /\ sIdx = 0
    /\ txLog = <<>>
    /\ rxLog = <<>>
    /\ sRet = <<>>
    /\ hazard = {}
    /\ nSerial = 0

\* The transmitter shifts one queued byte out onto the bus.
HwDrain ==
    /\ txFree < FifoDepth
    /\ txFree' = txFree + 1
    /\ UNCHANGED <<notFifoVars, rxQ, nArrived, rxLine, sPc, sBuf, sLen, sIdx, txLog, rxLog, sRet, hazard, nSerial>>

\* The next byte arrives on the receive line; a full FIFO drops it.
HwArrive ==
    /\ rxLine > 0
    /\ rxLine' = rxLine - 1
    /\ nArrived' = nArrived + 1
    /\ rxQ' = IF Len(rxQ) < FifoDepth THEN Append(rxQ, nArrived + 1) ELSE rxQ
    /\ UNCHANGED <<notFifoVars, txFree, sPc, sBuf, sLen, sIdx, txLog,
                   rxLog, sRet, hazard, nSerial>>

\* serial.write(buf) / serial.read(buf) / serial.flush() is called
SerialCall(op, b) ==
    /\ sPc = "idle"
    /\ nSerial < MaxSerial
    /\ nSerial' = nSerial + 1
    /\ sPc' = IF op = "flush" THEN "flush" ELSE op \o "_spin"
    /\ sBuf' = b
    /\ sLen' = -1
    /\ sIdx' = 0
    /\ txLog' = <<>>
    /\ rxLog' = <<>>
    /\ sRet' = <<>>
    /\ UNCHANGED <<notFifoVars, txFree, rxQ, nArrived, rxLine, hazard>>

\* while ...transmit_available_bytes() == 0 { spin_loop() }
write_spin ==
    /\ sPc = "write_spin"
    /\ IF transmit_available_bytes(fifo_config_1) = 0
       THEN UNCHANGED sPc
       ELSE sPc' = "write_len"
    /\ UNCHANGED <<notFifoVars, txFree, rxQ, nArrived, rxLine, sBuf, sLen, sIdx, txLog,
                   rxLog, sRet, hazard, nSerial>>

\* let len = min(...transmit_available_bytes() as usize, buf.len());
write_len_bufLen ==
    /\ sPc = "write_len"
    /\ sLen' = Len(sBuf)
    /\ sPc' = "write_iter"
    /\ UNCHANGED <<notFifoVars, txFree, rxQ, nArrived, rxLine, sBuf, sIdx, txLog, rxLog,
                   sRet, hazard, nSerial>>
write_len ==
    /\ sPc = "write_len"
    /\ sLen' = Min(transmit_available_bytes(fifo_config_1), Len(sBuf))
    /\ sPc' = "write_iter"
    /\ UNCHANGED <<notFifoVars, txFree, rxQ, nArrived, rxLine, sBuf, sIdx, txLog, rxLog,
                   sRet, hazard, nSerial>>

\* buf.iter().take(len).for_each(|&word| data_write.write(word)); Ok(len)
write_word ==
    /\ sPc = "write_iter"
    /\ sIdx < sLen
    /\ sIdx' = sIdx + 1
    /\ txLog' = Append(txLog, sBuf[sIdx + 1])
    /\ IF txFree = 0
       THEN hazard' = hazard \cup {"data_write while full"} /\ txFree' = txFree
       ELSE hazard' = hazard /\ txFree' = txFree - 1
    /\ UNCHANGED <<notFifoVars, rxQ, nArrived, rxLine, sPc, sBuf, sLen, rxLog,
                   sRet, nSerial>>

write_return_bufLen ==
    /\ sPc = "write_iter"
    /\ sIdx = sLen
    /\ sRet' = [op |-> "write", ok |-> TRUE, n |-> Len(sBuf)]
    /\ sPc' = "idle"
    /\ UNCHANGED <<notFifoVars, txFree, rxQ, nArrived, rxLine, sBuf, sLen, sIdx, txLog, rxLog, hazard, nSerial>>
write_return ==
    /\ sPc = "write_iter"
    /\ sIdx = sLen
    /\ sRet' = [op |-> "write", ok |-> TRUE, n |-> sLen]
    /\ sPc' = "idle"
    /\ UNCHANGED <<notFifoVars, txFree, rxQ, nArrived, rxLine, sBuf, sLen, sIdx, txLog, rxLog, hazard, nSerial>>

\* while ...transmit_available_bytes() != 32 { spin_loop() } Ok(())
flush_anyFree ==
    /\ sPc = "flush"
    /\ IF transmit_available_bytes(fifo_config_1) = 0
       THEN UNCHANGED <<sPc, sRet>>
       ELSE /\ sPc' = "idle"
            /\ sRet' = [op |-> "flush", ok |-> TRUE, n |-> 0]
    /\ UNCHANGED <<notFifoVars, txFree, rxQ, nArrived, rxLine, sBuf, sLen, sIdx, txLog,
                   rxLog, hazard, nSerial>>
flush ==
    /\ sPc = "flush"
    /\ IF transmit_available_bytes(fifo_config_1) # 32
       THEN UNCHANGED <<sPc, sRet>>
       ELSE /\ sPc' = "idle"
            /\ sRet' = [op |-> "flush", ok |-> TRUE, n |-> 0]
    /\ UNCHANGED <<notFifoVars, txFree, rxQ, nArrived, rxLine, sBuf, sLen, sIdx, txLog,
                   rxLog, hazard, nSerial>>

\* while ...receive_available_bytes() == 0 { spin_loop() }
read_spin ==
    /\ sPc = "read_spin"
    /\ IF receive_available_bytes(fifo_config_1) = 0
       THEN UNCHANGED sPc
       ELSE sPc' = "read_len"
    /\ UNCHANGED <<notFifoVars, txFree, rxQ, nArrived, rxLine, sBuf, sLen, sIdx, txLog,
                   rxLog, sRet, hazard, nSerial>>

\* let len = min(...receive_available_bytes() as usize, buf.len());
read_len ==
    /\ sPc = "read_len"
    /\ sLen' = Min(receive_available_bytes(fifo_config_1), Len(sBuf))
    /\ sPc' = "read_iter"
    /\ UNCHANGED <<notFifoVars, txFree, rxQ, nArrived, rxLine, sBuf, sIdx, txLog, rxLog,
                   sRet, hazard, nSerial>>

\* buf.iter_mut().take(len).for_each(|slot| *slot = data_read.read()); Ok(len)
read_slot ==
    /\ sPc = "read_iter"
    /\ sIdx < sLen
    /\ sIdx' = sIdx + 1
    /\ IF rxQ = <<>>
       THEN /\ hazard' = hazard \cup {"data_read while empty"}
            /\ rxQ' = rxQ
            /\ sBuf' = [sBuf EXCEPT ![sIdx + 1] = 0]
            /\ rxLog' = Append(rxLog, 0)
       ELSE /\ hazard' = hazard
            /\ rxQ' = Tail(rxQ)
            /\ sBuf' = [sBuf EXCEPT ![sIdx + 1] = Head(rxQ)]
            /\ rxLog' = Append(rxLog, Head(rxQ))
    /\ UNCHANGED <<notFifoVars, txFree, nArrived, rxLine, sPc, sLen, txLog, sRet,
                   nSerial>>

read_return ==
    /\ sPc = "read_iter"
    /\ sIdx = sLen
    /\ sRet' = [op |-> "read", ok |-> TRUE, n |-> sLen]
    /\ sPc' = "idle"
    /\ UNCHANGED <<notFifoVars, txFree, rxQ, nArrived, rxLine, sBuf, sLen, sIdx, txLog, rxLog, hazard, nSerial>>

NextDriver ==
    \/ \E b \in WriteBufs : SerialCall("write", b)
    \/ \E b \in ReadBufs : SerialCall("read", b)
    \/ SerialCall("flush", <<>>)
    \/ write_spin
    \/ write_len
    \/ write_word
    \/ write_return
    \/ flush
    \/ read_spin
    \/ read_len
    \/ read_slot
    \/ read_return

NextFifo ==
    \/ NextDriver
    \/ HwDrain
    \/ HwArrive

SpecFifo == InitFifo /\ [][NextFifo]_vars

\* The transmit side alone: the receive line is quiet and the driver only
\* writes and flushes.
InitFlush == InitFifo /\ rxLine = 0

NextTransmit ==
    \/ \E b \in WriteBufs : SerialCall("write", b)
    \/ SerialCall("flush", <<>>)
    \/ write_spin
    \/ write_len
    \/ write_word
    \/ write_return
    \/ flush

NextFlush ==
    \/ NextTransmit
    \/ HwDrain

SpecFlush == InitFlush /\ [][NextFlush]_vars

\* The hart keeps executing the driver and the transmitter keeps draining.
SpecFlushFair == SpecFlush /\ WF_vars(NextTransmit) /\ WF_vars(HwDrain)

(***************************************************************************)
(* Properties of the vector table and the trap frame                       *)
(***************************************************************************)
\* C11 as stated: the table trap_vectored has exactly 17 jump slots, so a
\* trap enters one of the slots 0..16.
C11_SeventeenSlots ==
    /\ pc = "trap_vectored" => slot \in 0..16
    /\ Len(trap_vectored) = 17

\* C11: the table trap_vectored has exactly 18 jump slots, slots 0..17, one
\* per cause number in the standard vectored order: every interrupt cause
\* 0..17 enters the slot of its own number, exceptions enter slot 0, and no
\* trap enters an address outside the table.
C11_EighteenSlots ==
    /\ Len(trap_vectored) = 18
    /\ DOMAIN trap_vectored = {c + 1 : c \in 0..MaxInterruptCause}
    /\ pc = "trap_vectored" =>
          /\ slot \in 0..(Len(trap_vectored) - 1)
          /\ mcause.interrupt => slot = mcause.code
          /\ TrapTarget(mtvec, mcause.interrupt, mcause.code) = tv + 4 * slot
    /\ nTraps > 0 /\ mcause.interrupt /\ mcause.code \in 0..MaxInterruptCause =>
          pc # "wild"

W_C11_LastSlotEntered ==
    /\ pc = "trap_vectored"
    /\ slot = 17
    /\ mcause = [interrupt |-> TRUE, code |-> 17]

AtMret == ip = Len(machine_external_asm)
ReloadsGpr(i) == i.op = "ld" /\ i.off < 16 * 8

\* C12: whatever the registers held at entry to machine_external and
\* whatever the dispatcher left in the caller-saved registers, at mret ra,
\* t0..t6, a0..a7, sp and the CSRs mcause, mepc, mstatus hold their values
\* of entry; after the call each csrw writes the value loaded from the CSR's
\* frame word, all three csrw come before the first reload of a
\* general-purpose register, and mret is the last instruction executed.
C12_FrameRestored ==
    /\ AtMret => regs = atEntry.regs /\ csrs = atEntry.csrs
    /\ ip \in DOMAIN machine_external_asm /\ Fetch.op = "csrw" /\ log # <<>> =>
          /\ \E k \in 1..3 :
                /\ FrameCsrs[k] = Fetch.csr
                /\ regs[Fetch.reg] = mem[regs["sp"] + (15 + k) * 8]
                /\ regs[Fetch.reg] = atEntry.csrs[Fetch.csr]
          /\ \A j \in DOMAIN log : ~ReloadsGpr(log[j])
    /\ \A i \in DOMAIN log : ReloadsGpr(log[i]) =>
          \A k \in 1..3 : \E j \in 1..(i - 1) :
              log[j].op = "csrw" /\ log[j].csr = FrameCsrs[k]
    /\ \A i \in DOMAIN log : log[i].op = "mret" => i = Len(log) /\ ip = 0
    /\ ip = 0 =>
          /\ log # <<>> /\ log[Len(log)].op = "mret"
          /\ resumed = atEntry.csrs.mepc
          /\ regs = atEntry.regs

W_C12_ClobberedThenRestored ==
    /\ AtMret
    /\ mem[0] = 9000 + MaxClobber
    /\ regs = atEntry.regs
    /\ regs["sp"] = 19 * 8 + 8
    /\ csrs.mepc = atEntry.csrs.mepc

C17_StateOk ==
    /\ pc \in DispatchWindow => ~mstatus.mie
    /\ Len(frames) <= 1
    /\ pc = "machine_external" => frames = <<>> /\ plicClaimed = {}
    /\ pc = "trap_vectored" /\ mcause = [interrupt |-> TRUE, code |-> 11] =>
          meip # "" /\ frames = <<>> /\ plicClaimed = {}
    /\ pc = "main" /\ meip = "dispatch" /\ mstatus.mie /\ nTraps < MaxTraps =>
          ENABLED TakeInterrupt(11)
C17_StepOk ==
    /\ pc \in DispatchWindow /\ pc' \in DispatchWindow => mstatus' = mstatus
    /\ nTraps' # nTraps /\ mcause'.interrupt => pc \notin DispatchWindow /\ frames = <<>>
    /\ pc = "restore" /\ pc' # "restore" =>
          /\ frames' = <<>>
          /\ mstatus'.mie = Head(frames).mstatus.mpie
          /\ meip' = meip

\* C17: between the entry of machine_external and its mret mstatus is not
\* written (MIE stays clear as trap entry left it), so an external interrupt
\* that becomes pending during dispatch is not taken before mret:
\* machine_external is never entered while a frame is live or a claim is
\* outstanding; mret restores MIE from the frame with the interrupt still
\* pending, and the hart then takes it.
C17_NoNestedExternal == [](C17_StateOk) /\ [][C17_StepOk]_vars

W_C17_DeferredTakenAfterMret ==
    /\ pc = "trap_vectored"
    /\ slot = 11
    /\ nTraps = 2
    /\ meip = "dispatch"
    /\ mepc = "main"
    /\ frames = <<>>

(***************************************************************************)
(* Properties of the entry sequence (SpecStart, SpecStartFair)             *)
(***************************************************************************)
StartSteps(c) ==
    IF c = "mcu" THEN << "sp", "bss", "data", "main" >>
    ELSE << "sp", "bss", "data", "mtvec", "pmpaddr0", "pmpcfg0", "main" >>

C13_StateOk ==
    /\ Len(done) <= Len(StartSteps(core))
    /\ done = SubSeq(StartSteps(core), 1, Len(done))
    /\ sreg.sp # -1 => sreg.sp = sym.stack + (IF core = "mcu" THEN 1024 ELSE 4096)
    /\ mainCalls = (IF spc = "main" THEN 1 ELSE 0)
    /\ spc = "main" => done = StartSteps(core)
    /\ core = "mcu" => scsr = [mtvec |-> -1, pmpaddr0 |-> -1, pmpcfg0 |-> -1]
    /\ core = "dsp" /\ spc = "main" =>
          scsr.mtvec # -1 /\ scsr.pmpaddr0 # -1 /\ scsr.pmpcfg0 # -1
C13_StepOk ==
    /\ ram' # ram => sreg.sp # -1
    /\ mainCalls' # mainCalls => mainCalls = 0 /\ spc = "call_main"
    /\ spc = "main" => spc' = "main"

\* C13: on both cores start runs its steps in one order, none skipped: sp to
\* the top of STACK (base + 1024 on the MCU, base + 4096 on the DSP core),
\* the zeroing loop, the copy loop, on the DSP core only the writes of
\* mtvec, pmpaddr0 and pmpcfg0, then the call of main; for every sbss <=
\* ebss and sdata <= edata both loops end and main is called exactly once,
\* after every earlier step; memory is written only once sp is set; the MCU
\* variant writes neither mtvec nor a PMP register.
C13_StartSequence ==
    /\ [](C13_StateOk)
    /\ [][C13_StepOk]_vars
    /\ <>(spc = "main" /\ mainCalls = 1)

W_C13_DspReachedMain ==
    /\ core = "dsp"
    /\ spc = "main"
    /\ done = << "sp", "bss", "data", "mtvec", "pmpaddr0", "pmpcfg0", "main" >>
    /\ sym.ebss - sym.sbss = MaxLen
    /\ sym.edata - sym.sdata = MaxLen

ZeroLoopFinished == spc = "la_data"
CopyLoopFinished == spc \in {"mtvec", "call_main"}

\* C14: when the zeroing loop of start has finished every byte of
\* [sbss, ebss) is zero, for every sbss <= ebss, the empty region included,
\* with the 4-byte stores of the MCU and the 8-byte stores of the DSP core.
C14_BssZeroed ==
    ZeroLoopFinished =>
        /\ sym.sbss <= sym.ebss
        /\ \A a \in RamAddrs : a >= sym.sbss /\ a < sym.ebss => ram[a] = 0
        /\ sreg.t1 >= sym.ebss
        /\ (sreg.t1 - sym.sbss) % WordBytes(core) = 0

W_C14_DspOddLengthZeroed ==
    /\ ZeroLoopFinished
    /\ core = "dsp"
    /\ sym.sbss = BssBase + 1
    /\ sym.ebss - sym.sbss = 9
    /\ \A a \in RamAddrs : a >= sym.sbss /\ a < sym.ebss => ram[a] = 0

DataLen == sym.edata - sym.sdata

\* C15: when the copy loop of start has finished, the byte at run address
\* sdata + i is the byte that was at load address sidata + i before the
\* loop, for 0 <= i < edata - sdata, for every sdata <= edata and load and
\* run regions that do not overlap; and the load image is as it was.
C15_DataCopiedImageIntact ==
    CopyLoopFinished /\ ~Overlap(sym.sidata, sym.sdata, DataLen) =>
        /\ \A i \in 0..(DataLen - 1) : ram[sym.sdata + i] = ramAtCopy[sym.sidata + i]
        /\ \A i \in 0..(DataLen - 1) : ram[sym.sidata + i] = ramAtCopy[sym.sidata + i]

\* C16: on the DSP core, once start has run, an access of machine-mode code
\* below the base of STACK is denied by PMP entry 0, raises an access fault
\* that halts the core in `reserved`, and does not modify memory.
C16_StackOverflowDenied ==
    access # <<>> /\ access.mode = "M" /\ access.addr < sym.stack =>
        /\ access.denied
        /\ ~access.wrote
        /\ spc = "reserved"

\* C26: the DSP start writes pmpaddr0 = (0x3E000000 >> 2) + (16 MiB >> 3)
\* - 1 = 0x0F9FFFFF and pmpcfg0 = 0b00011000, i.e. entry 0 with R, W and X
\* all 0, address matching NAPOT and the lock bit 0; under NAPOT decoding
\* the address denotes exactly the 16 MiB range [0x3E000000, 0x3F000000):
\* an eight-byte access matches the entry exactly when it lies inside it.
C26_PmpEntry ==
    /\ core = "dsp" /\ scsr.pmpaddr0 # -1 =>
          /\ scsr.pmpaddr0 = \H0F9FFFFF
          /\ NapotBase(scsr.pmpaddr0) = \H3E000000
          /\ NapotSize(scsr.pmpaddr0) = 16 * 1024 * 1024
          /\ NapotBase(scsr.pmpaddr0) % NapotSize(scsr.pmpaddr0) = 0
    /\ core = "dsp" /\ scsr.pmpcfg0 # -1 =>
          /\ scsr.pmpcfg0 = 16 + 8
          /\ PmpField(scsr.pmpcfg0, 1, 2) = 0
          /\ PmpField(scsr.pmpcfg0, 2, 2) = 0
          /\ PmpField(scsr.pmpcfg0, 4, 2) = 0
          /\ PmpField(scsr.pmpcfg0, 8, 4) = 3
          /\ PmpField(scsr.pmpcfg0, 32, 4) = 0
          /\ PmpField(scsr.pmpcfg0, 128, 2) = 0
    /\ access # <<>> =>
          (PmpMatch(scsr.pmpcfg0, scsr.pmpaddr0, access.addr, 8) = "all"
              <=> \H3E000000 <= access.addr /\ access.addr + 8 <= \H3F000000)

\* The last doubleword of the range has been accessed after start.
W_C26_LastWordOfRange ==
    /\ spc = "main"
    /\ access # <<>>
    /\ access.addr = \H3F000000 - 8
    /\ scsr.pmpaddr0 = \H0F9FFFFF
    /\ scsr.pmpcfg0 = 24

(***************************************************************************)
(* Properties of the UART configuration values (SpecUart)                  *)
(***************************************************************************)
FlagNames == <<"txd", "cts", "freerun", "lin_transmit", "ir_transmit", "ir_inverse">>
FlagBits == <<0, 1, 2, 3, 6, 7>>
IsEnabled(k, v) == FlagGetter("is_" \o FlagNames[k] \o "_enabled", v)
CalledOn(ty, op) == lastCall # <<>> /\ cfgReg.ty = ty /\ lastCall.op = op
EnableOf(k) == "enable_" \o FlagNames[k]
DisableOf(k) == "disable_" \o FlagNames[k]

C18_StateOk ==
    \A k \in 1..6 :
        /\ CalledOn("TransmitConfig", EnableOf(k)) =>
              /\ cfgReg.v = lastCall.before \cup {FlagBits[k]}
              /\ cfgReg.v \ {FlagBits[k]} = lastCall.before \ {FlagBits[k]}
              /\ IsEnabled(k, cfgReg.v)
        /\ CalledOn("TransmitConfig", DisableOf(k)) =>
              /\ cfgReg.v = lastCall.before \ {FlagBits[k]}
              /\ ~IsEnabled(k, cfgReg.v)
        /\ cfgReg.ty = "TransmitConfig" => (IsEnabled(k, cfgReg.v) <=> FlagBits[k] \in cfgReg.v)
C18_StepOk ==
    \A k \in 1..6 :
        /\ CalledOn("TransmitConfig", EnableOf(k))
        /\ FlagBits[k] \notin lastCall.before
        /\ lastCall' # lastCall
        /\ lastCall'.op = DisableOf(k)
        => cfgReg'.v = lastCall.before

\* C18: on every TransmitConfig value enable_x (txd, cts, freerun,
\* lin_transmit, ir_transmit, ir_inverse) sets exactly its bit (0, 1, 2, 3, 6,
\* 7) and disable_x clears exactly that bit, the other 31 bits staying as
\* they were; is_x_enabled is true after enable_x and false after disable_x;
\* enable_x then disable_x on a value with the bit clear gives the value back.
C18_FlagMethods == [](C18_StateOk) /\ [][C18_StepOk]_vars

W_C18_EnableThenDisable ==
    /\ CalledOn("TransmitConfig", "disable_ir_transmit")
    /\ nCalls = 2
    /\ lastCall.before = (WordBits \ {b \in WordBits : b % 2 = 0}) \cup {6}
    /\ cfgReg.v = {b \in WordBits : b % 2 = 1}

ParityOf(ty, v) ==
    IF ty = "TransmitConfig" THEN TransmitConfig_parity(v) ELSE ReceiveConfig_parity(v)

\* C19: on every TransmitConfig and ReceiveConfig value, whatever parity it
\* held, set_parity(p) followed by parity() gives p; set_parity changes no
\* bit other than 4 and 5; after Even bit 4 is set and bit 5 clear, after
\* Odd bits 4 and 5 are set, after None bit 4 is clear.
C19_ParityRoundTrip ==
    lastCall # <<>> /\ lastCall.op = "set_parity" =>
        LET p == lastCall.arg
            v == cfgReg.v
        IN /\ ParityOf(cfgReg.ty, v) = p
           /\ v \ {4, 5} = lastCall.before \ {4, 5}
           /\ p = "Even" => 4 \in v /\ 5 \notin v
           /\ p = "Odd" => 4 \in v /\ 5 \in v
           /\ p = "None" => 4 \notin v

W_C19_EvenAfterOdd ==
    /\ CalledOn("ReceiveConfig", "set_parity")
    /\ lastCall.arg = "Even"
    /\ {4, 5} \subseteq lastCall.before
    /\ nCalls = 2
    /\ ReceiveConfig_parity(cfgReg.v) = "Even"
    /\ cfgReg.v = WordBits \ {5}

\* The len bits of v from bit lo upward read as the number n.
FieldIs(v, lo, len, n) ==
    \A i \in 0..(len - 1) : (lo + i \in v) <=> ((n \div Pow2(i)) % 2 = 1)
OutsideKept(lo, len) ==
    cfgReg.v \ (lo..(lo + len - 1)) = lastCall.before \ (lo..(lo + len - 1))
WordLengthCode == [Five |-> 4, Six |-> 5, Seven |-> 6, Eight |-> 7]
StopBitsCode == [ZeroPointFive |-> 0, One |-> 1, OnePointFive |-> 2, Two |-> 3]

\* C20: on every TransmitConfig value each field setter round-trips with its
\* getter and changes no bit outside its field: word length Five..Eight as
\* 4..7 in bits 8..10, stop bits as 0..3 in bits 11..12, LIN break bits
\* 0..7 in bits 13..15, the 16-bit transfer length in bits 16..31.
C20_FieldRoundTrip ==
    /\ CalledOn("TransmitConfig", "set_word_length") =>
          /\ word_length(cfgReg.v) = lastCall.arg
          /\ FieldIs(cfgReg.v, 8, 3, WordLengthCode[lastCall.arg])
          /\ OutsideKept(8, 3)
    /\ CalledOn("TransmitConfig", "set_stop_bits") =>
          /\ stop_bits(cfgReg.v) = lastCall.arg
          /\ FieldIs(cfgReg.v, 11, 2, StopBitsCode[lastCall.arg])
          /\ OutsideKept(11, 2)
    /\ CalledOn("TransmitConfig", "set_lin_break_bits") =>
          /\ lin_break_bits(cfgReg.v) = lastCall.arg
          /\ FieldIs(cfgReg.v, 13, 3, lastCall.arg)
          /\ OutsideKept(13, 3)
    /\ CalledOn("TransmitConfig", "set_transfer_length") =>
          /\ transfer_length(cfgReg.v) = lastCall.arg
          /\ FieldIs(cfgReg.v, 16, 16, lastCall.arg)
          /\ OutsideKept(16, 16)

W_C20_LengthOverOldLength ==
    /\ CalledOn("TransmitConfig", "set_transfer_length")
    /\ lastCall.arg = \Habcd
    /\ lastCall.before = WordBits
    /\ transfer_length(cfgReg.v) = \Habcd
    /\ cfgReg.v \cap 0..15 = 0..15

\* C21: on every BitPeriod value v and every 16-bit x,
\* set_transmit_time_interval(x) then transmit_time_interval() gives x and
\* set_receive_time_interval(x) then receive_time_interval() gives x; the
\* transmit setter changes only bits 0..15 and the receive setter only bits
\* 16..31, so each setter leaves the other field's reading alone and the two
\* setters applied in either order give the same value.
C21_BitPeriodFields ==
    /\ cfgReg.ty = "BitPeriod" =>
          \A t \in PeriodSamples :
              /\ transmit_time_interval(set_transmit_time_interval(cfgReg.v, t)) = t
              /\ receive_time_interval(set_receive_time_interval(cfgReg.v, t)) = t
    /\ CalledOn("BitPeriod", "set_transmit_time_interval") =>
          /\ transmit_time_interval(cfgReg.v) = lastCall.arg
          /\ OutsideKept(0, 16)
          /\ receive_time_interval(cfgReg.v) = receive_time_interval(lastCall.before)
          /\ \A r \in PeriodSamples :
                set_receive_time_interval(cfgReg.v, r) =
                    set_transmit_time_interval(
                        set_receive_time_interval(lastCall.before, r), lastCall.arg)
    /\ CalledOn("BitPeriod", "set_receive_time_interval") =>
          /\ receive_time_interval(cfgReg.v) = lastCall.arg
          /\ OutsideKept(16, 16)
          /\ transmit_time_interval(cfgReg.v) = transmit_time_interval(lastCall.before)
          /\ \A t \in PeriodSamples :
                set_transmit_time_interval(cfgReg.v, t) =
                    set_receive_time_interval(
                        set_transmit_time_interval(lastCall.before, t), lastCall.arg)

\* Both intervals written, the receive one last.
W_C21_BothIntervalsSet ==
    /\ CalledOn("BitPeriod", "set_receive_time_interval")
    /\ nCalls = 2
    /\ lastCall.arg = \Habcd
    /\ transmit_time_interval(cfgReg.v) = \H1037
    /\ receive_time_interval(cfgReg.v) = \Habcd

(***************************************************************************)
(* Properties of the serial driver                                         *)
(***************************************************************************)
Includes(tuple, mux) == \E i \in DOMAIN tuple : tuple[i] = mux
Written(reg) == \E i \in DOMAIN uartWrites : uartWrites[i].reg = reg
ValueOf(reg) ==
    uartWrites[CHOOSE i \in DOMAIN uartWrites : uartWrites[i].reg = reg].val

\* C22: for every pin tuple type that implements Pins, the constants RTS,
\* CTS, TXD and RXD are true exactly when the tuple includes a pin
\* multiplexed to MuxRts, MuxCts, MuxTxd and MuxRxd respectively; for the
\* four-pin (Txd, Rxd, Rts, Cts) tuple all four are true, and the
\* receive_config word Serial::freerun writes for it has the receiver
\* enabled (bit 0).
C22_PinConstants ==
    frIn # <<>> =>
        /\ Pins(frIn.pins).RTS <=> Includes(frIn.pins, "MuxRts")
        /\ Pins(frIn.pins).CTS <=> Includes(frIn.pins, "MuxCts")
        /\ Pins(frIn.pins).TXD <=> Includes(frIn.pins, "MuxTxd")
        /\ Pins(frIn.pins).RXD <=> Includes(frIn.pins, "MuxRxd")
        /\ Len(frIn.pins) = 4 /\ Written("receive_config") =>
              0 \in ValueOf("receive_config")

FreerunOrder == <<"bit_period", "data_config", "transmit_config", "receive_config">>
FreerunRejects ==
    \/ frIn.clock = <<>>
    \/ frIn.baud = 0
    \/ (frIn.clock[1] \div frIn.baud) \notin 1..65535

\* C23: Serial::freerun panics before writing any UART register when there
\* is no valid UART clock source, the baudrate is 0 or floor(uart_clock /
\* baudrate) is outside 1..65535, and only then; otherwise it writes
\* bit_period, data_config, transmit_config and receive_config in that
\* order and once each, bit_period with transmit interval = receive interval
\* = floor(uart_clock / baudrate), transmit_config with free-run (bit 2)
\* set, TXD (bit 0) set exactly when PINS::TXD and CTS (bit 1) exactly when
\* PINS::CTS, and receive_config with RXD (bit 0) set exactly when PINS::RXD.
C23_FreerunWrites ==
    frIn # <<>> =>
        /\ frPc = "panic" => uartWrites = <<>> /\ FreerunRejects
        /\ FreerunRejects => frPc \in {"entry", "panic"} /\ uartWrites = <<>>
        /\ Len(uartWrites) <= 4
        /\ \A i \in DOMAIN uartWrites : uartWrites[i].reg = FreerunOrder[i]
        /\ frPc = "done" <=> Len(uartWrites) = 4
        /\ Written("bit_period") =>
              /\ FieldIs(ValueOf("bit_period"), 0, 16, frIn.clock[1] \div frIn.baud)
              /\ FieldIs(ValueOf("bit_period"), 16, 16, frIn.clock[1] \div frIn.baud)
        /\ Written("transmit_config") =>
              /\ 2 \in ValueOf("transmit_config")
              /\ 0 \in ValueOf("transmit_config") <=> Pins(frIn.pins).TXD
              /\ 1 \in ValueOf("transmit_config") <=> Pins(frIn.pins).CTS
        /\ Written("receive_config") =>
              0 \in ValueOf("receive_config") <=> Pins(frIn.pins).RXD

\* 40 MHz at 115200 baud on a (Txd, Cts) tuple: all four registers written,
\* both intervals 347.
W_C23_AllFourWritten ==
    /\ frPc = "done"
    /\ frIn.clock = <<40000000>> /\ frIn.baud = 115200
    /\ frIn.pins = <<"MuxTxd", "MuxCts">>
    /\ interval = 347
    /\ Len(uartWrites) = 4
    /\ {0, 1, 2} \subseteq ValueOf("transmit_config")

Returned(op) == sPc = "idle" /\ sRet # <<>> /\ sRet.op = op
JustReturned(op) == sPc # "idle" /\ sPc' = "idle" /\ sRet'.op = op

\* C24: Serial::flush never returns an error; at the step at which it
\* returns Ok the transmit FIFO has all 32 bytes free, so no byte is still
\* queued; and with the transmitter draining and no further byte written, a
\* flush that has been called eventually returns.
C24_FlushStateOk == sRet # <<>> => sRet.ok
C24_FlushStepOk ==
    JustReturned("flush") =>
        /\ txFree = FifoDepth
        /\ txFree' = FifoDepth
        /\ sRet'.ok
C24_FlushDrains ==
    /\ [](C24_FlushStateOk)
    /\ [][C24_FlushStepOk]_vars
    /\ (sPc = "flush") ~> (sPc = "idle" /\ sRet # <<>> /\ sRet.op = "flush")

\* flush, called second, returned Ok with the transmit FIFO drained.
W_C24_FlushedFromFull ==
    /\ Returned("flush")
    /\ nSerial = 2
    /\ txFree = FifoDepth
    /\ nArrived = 0
    /\ hazard = {}

Prefix(s, n) == [i \in 1..n |-> s[i]]

\* C27: Serial::write never returns an error; it returns Ok(n) with n the
\* minimum of the free count the FIFO reports at its second read of
\* fifo_config_1 and buf.len(), having written exactly the first n bytes of buf to data_write
\* in buffer order; n >= 1 for a non-empty buf; and it leaves its first loop
\* only on a read that reports at least one free byte, also when buf is
\* empty. Serial::read likewise returns Ok(n) with n the minimum of the
\* received count of its second read and buf.len(), having filled the first
\* n slots with the n oldest bytes of the receive FIFO in arrival order and
\* left the other slots alone.
C27_StateOk ==
    /\ sRet # <<>> => sRet.ok
    /\ Returned("write") =>
          /\ sRet.n = sLen
          /\ txLog = Prefix(sBuf, sRet.n)
          /\ Len(sBuf) > 0 => sRet.n >= 1
    /\ Returned("read") =>
          /\ sRet.n = sLen
          /\ Prefix(sBuf, sRet.n) = rxLog
          /\ \A i \in 1..Len(rxLog) : rxLog[i] >= 1
          /\ \A i \in 1..(Len(rxLog) - 1) : rxLog[i + 1] = rxLog[i] + 1
          /\ sRet.n >= 1 /\ rxQ # <<>> => Head(rxQ) > rxLog[sRet.n]
          /\ \A i \in (sRet.n + 1)..Len(sBuf) : sBuf[i] = 0
          /\ Len(sBuf) > 0 => sRet.n >= 1
C27_StepOk ==
    /\ sPc = "write_spin" /\ sPc' # "write_spin" => txFree >= 1 /\ sPc' = "write_len"
    /\ sPc = "read_spin" /\ sPc' # "read_spin" => Len(rxQ) >= 1 /\ sPc' = "read_len"
    /\ sPc = "write_len" /\ sPc' # "write_len" =>
          sPc' = "write_iter" /\ sLen' = Min(txFree, Len(sBuf))
    /\ sPc = "read_len" /\ sPc' # "read_len" =>
          sPc' = "read_iter" /\ sLen' = Min(Len(rxQ), Len(sBuf))
    /\ sPc \in {"write_iter", "read_iter"} => sLen' = sLen /\ Len(sBuf') = Len(sBuf)
    /\ JustReturned("write") \/ JustReturned("read") =>
          sPc \in {"write_iter", "read_iter"}
C27_WriteReadCounts == [](C27_StateOk) /\ [][C27_StepOk]_vars

\* write of three bytes returned Ok(2): two bytes free at the second read.
W_C27_ShortWrite ==
    /\ Returned("write")
    /\ Len(sBuf) = 3
    /\ txFree = 0
    /\ sRet.n = 2
    /\ txLog = <<11, 12>>

\* C28: with the hardware draining the transmit FIFO and filling the
\* receive FIFO between any two register accesses of the driver, no
\* Serial::write call writes data_write while the transmit FIFO is full and
\* no Serial::read call reads data_read while the receive FIFO is empty.
C28_StateOk == hazard = {}
C28_StepOk ==
    /\ sPc = "write_iter" /\ txLog' # txLog => txFree >= 1
    /\ sPc = "read_iter" /\ rxLog' # rxLog => rxQ # <<>>
C28_NoFifoHazard == [](C28_StateOk) /\ [][C28_StepOk]_vars

\* A read of three slots took its last byte after more bytes had arrived
\* during the call.
W_C28_ReadWhileFilling ==
    /\ sPc = "read_iter"
    /\ sLen = 2 /\ sIdx = 2
    /\ Len(sBuf) = 3
    /\ nArrived = 3
    /\ rxQ = <<3>>

(***************************************************************************)
(* Properties of the trap frame layout (SpecFrame)                         *)
(***************************************************************************)
FrameBase == atEntry.regs["sp"] - SizeOf("TrapFrame")
InFrame(a) == FrameBase <= a /\ a < atEntry.regs["sp"]
AtCall == ip \in DOMAIN machine_external_asm /\ Fetch.op = "call"
EntryValue(name) ==
    IF name \in DOMAIN atEntry.csrs THEN atEntry.csrs[name] ELSE atEntry.regs[name]

\* C25: machine_external lowers sp by exactly 19 eight-byte words, the size
\* of the #[repr(C)] TrapFrame, and every store it makes goes inside those
\* words; when the dispatcher is called a0 = sp points at the lowest of
\* them and the word at the offset of each TrapFrame field (ra, t0, t1, t2,
\* a0..a7, t3..t6, mcause, mepc, mstatus at words 0..18) holds that
\* register's value of trap entry; sp is back at its entry value when mret
\* executes and after it, and the stack at and above the entry sp is never
\* written.
C25_FrameIsTrapFrame ==
    /\ Len(TrapFrame) = 19
    /\ SizeOf("TrapFrame") = 19 * 8
    /\ \A k \in 1..19 : OffsetOf("TrapFrame", k) = (k - 1) * 8
    /\ ip \in DOMAIN machine_external_asm /\ Fetch.op = "sd" =>
          InFrame(regs["sp"] + Fetch.off)
    /\ ip \in 2..(Len(machine_external_asm) - 1) => regs["sp"] = FrameBase
    /\ AtCall =>
          /\ regs["a0"] = FrameBase
          /\ \A k \in 1..Len(TrapFrame) :
                mem[regs["a0"] + OffsetOf("TrapFrame", k)] = EntryValue(TrapFrame[k].name)
    /\ AtMret \/ ip = 0 => regs["sp"] = atEntry.regs["sp"]
    /\ \A a \in WordAddrs : a >= atEntry.regs["sp"] => mem[a] = 7000 + a

\* The dispatcher is about to be called with a full frame below an entry sp
\* that had a spare word under the frame.
W_C25_FrameBuiltAtCall ==
    /\ AtCall
    /\ FrameBase = 8
    /\ regs["a0"] = 8
    /\ mem[8 + 18 * 8] = atEntry.csrs["mstatus"]
    /\ mem[8 + 4 * 8] = atEntry.regs["a0"]

====
